---- MODULE Spec2Model ----
(***************************************************************************)
(* Model of the dependency-resolution core of cc/cc.go:                    *)
(*   - Module.chooseSdkVersion   (stub version selection)                  *)
(*   - orderStaticModuleDeps     (static-library topological orderer)      *)
(*   - Module.depsToPaths        (path/flag resolution of one consumer)    *)
(*   - Module.deps, DepsMutator  (dependency rewriting, edge construction) *)
(*   - rewriteVendorLibs, rewriteSnapshotLibs (name rewriting)             *)
(*   - checkLinkType             (link-compatibility checker)              *)
(*   - checkDoubleLoadableLibraries (double-load checker)                  *)
(*   - RegisterCCBuildComponents (the mutators and their order)            *)
(*   - Module.GenerateAndroidBuildActions (the stages of one module and    *)
(*     what it publishes to the modules that depend on it)                 *)
(* Each function is exercised by its own specification: SpecChoose,        *)
(* SpecOrder, Spec (with SpecImage and SpecLibrary for the ramdisk or      *)
(* recovery consumers and the library consumers), SpecMutator,             *)
(* SpecRewrite, SpecLink, SpecWalk, SpecPipe and SpecResolve.              *)
(***************************************************************************)
EXTENDS Integers, Sequences, FiniteSets, TLC

VARIABLES
    \* ---- chooseSdkVersion harness ----
    stubsInfo,        \* the []SharedLibraryStubsInfo argument
    maxSdkVersion,    \* the android.ApiLevel argument
    chooseRet,        \* the (SharedLibraryStubsInfo, error) pair returned
    choosePc,         \* "call" before the call, "done" after it
    \* ---- orderStaticModuleDeps harness ----
    staticDeps,       \* the []StaticLibraryInfo argument
    sharedDeps,       \* the []SharedLibraryInfo argument
    orderRet,         \* what the call returned, or that it panicked
    orderPc,          \* "build" while the arguments grow, "done" after the call
    \* ---- depsToPaths of one consumer module ----
    consumer,         \* the consumer's variant and the build configuration
    apexSdkVersion,   \* c.apexSdkVersion
    local,            \* depPaths, directStaticDeps, directSharedDeps and what
                      \* the module context recorded (errors, missing deps)
    visit,            \* the last dependency visited and what was decided for it
    nVisited,         \* number of dependencies visited so far
    pathsPc,          \* "start", "visit", "done", "panic" ("idle": not run)
    \* ---- DepsMutator of one module ----
    module,           \* the module's variant and the build configuration
    props,            \* the Deps that c.deps(ctx) has collected from the
                      \* module's compiler, linker, stl, ... (before line 1594)
    nDeclared,        \* number of names in props
    mutated,          \* the dependencies DepsMutator added, the errors it
                      \* reported and deps as it stood at the end
    mutatorPc,        \* "declare", "done" ("idle": not run)
    \* ---- rewriteVendorLibs / rewriteSnapshotLibs harness ----
    rwCall,           \* the function called, the module it is called for and
                      \* the snapshot table it looks the name up in
    rwLib,            \* the name handed to the first call
    rwOut,            \* what the calls so far returned, each call being
                      \* handed the result of the one before
    rwPc,             \* "call", "done" ("idle": not run)
    \* ---- checkLinkType on one dependency ----
    linkFrom,         \* the module whose dependency is checked
    linkTo,           \* the module it depends on
    linkTag,          \* the tag of the dependency
    linkErrors,       \* the errors the check reported
    linkPc,           \* "check", "done" ("idle": not run)
    \* ---- checkDoubleLoadableLibraries of one module ----
    walkModules,      \* the modules of the graph that is walked
    walkDeps,         \* the direct dependencies of each module, in order
    walkErrors,       \* the errors the checks reported
    walkPc,           \* "check", "done" ("idle": not run)
    \* ---- the mutators registered by RegisterCCBuildComponents ----
    pipeDeps,         \* the direct dependencies of each module of the pipeline
    pipePass,         \* the index of the mutator that is running
    pipeStarted,      \* per module: the last mutator that started on it
    pipeFinished,     \* per module: the last mutator that finished on it
    \* ---- Path/Flag Resolution of a module graph (GenerateAndroidBuildActions) ----
    resConfig,        \* the module graph and the configuration: the tag of
                      \* each edge, the stage at which each module fails,
                      \* AllowMissingDependencies
    resState,         \* of each module: how far GenerateAndroidBuildActions
                      \* has got and what it has computed
    published,        \* the providers and the outputFile each module has published
    resOrder,         \* the modules in the order their resolution started in this run
    resRun,           \* the number of the run (1, 2; 0: not run)
    resFirst          \* resState and resOrder at the end of the first run

chooseVars == <<stubsInfo, maxSdkVersion, chooseRet, choosePc>>

orderVars == <<staticDeps, sharedDeps, orderRet, orderPc>>

pathsVars == <<consumer, apexSdkVersion, local, visit, nVisited, pathsPc>>

mutatorVars == <<module, props, nDeclared, mutated, mutatorPc>>

\* the variables of the harnesses further down
rewriteVars == <<rwCall, rwLib, rwOut, rwPc>>

linkVars == <<linkFrom, linkTo, linkTag, linkErrors, linkPc>>

walkVars == <<walkModules, walkDeps, walkErrors, walkPc>>

pipeVars == <<pipeDeps, pipePass, pipeStarted, pipeFinished>>

resolveVars == <<resConfig, resState, published, resOrder, resRun, resFirst>>

laterVars == <<mutatorVars, rewriteVars, linkVars, walkVars, pipeVars, resolveVars>>

vars == <<chooseVars, orderVars, pathsVars, laterVars>>

(***************************************************************************)
(* Bounds of the model                                                     *)
(***************************************************************************)
\* finalized API levels are 1..MaxApi
MaxApi == 3
\* longest stub table handed to chooseSdkVersion
MaxStubs == 3
\* most direct static dependencies handed to orderStaticModuleDeps
MaxStaticDeps == 2
\* most direct shared dependencies handed to orderStaticModuleDeps
MaxSharedDeps == 1
\* most dependency edges of the consumer that depsToPaths visits
MaxDeps == 2
\* most names a module declares over all its dependency lists
MaxDeclared == 2

(***************************************************************************)
(* android.ApiLevel.  A level is modelled by its number; the future        *)
(* ("current") level has the number 10000 and is above every finalized     *)
(* level.  Preview codenames are not modelled.                             *)
(***************************************************************************)
FutureApiLevel == 10000

ApiLevels == (1..MaxApi) \cup {FutureApiLevel}

\* ApiLevel.LessThanOrEqualTo
LessThanOrEqualTo(a, b) == a <= b

\* ApiLevel.String: the future level prints as "current", a finalized level
\* as its decimal number.
ApiLevelString(a) == IF a = FutureApiLevel THEN "current" ELSE ToString(a)

\* Version labels a stub entry may carry: "" (the implementation/future
\* entry), "current", the decimal numbers of the finalized levels, and a
\* label that is neither a number nor a codename.
VersionLabels == {"", "current", "x"} \cup {ToString(n) : n \in 1..MaxApi}

\* android.ApiLevelFromUser: "current" is the future level, a decimal number
\* is that finalized level, anything else is an error.
ApiLevelFromUser(raw) ==
    IF raw = "current" THEN [err |-> FALSE, level |-> FutureApiLevel]
    ELSE IF \E n \in 1..MaxApi : ToString(n) = raw
         THEN [err |-> FALSE, level |-> CHOOSE n \in 1..MaxApi : ToString(n) = raw]
         ELSE [err |-> TRUE, level |-> 0]

(***************************************************************************)
(* Module.chooseSdkVersion                                                 *)
(***************************************************************************)
\* SharedLibraryStubsInfo{}: the zero value returned next to an error
NoFlagExporterInfo ==
    [IncludeDirs |-> <<>>, SystemIncludeDirs |-> <<>>, Flags |-> <<>>,
     Deps |-> <<>>, GeneratedHeaders |-> <<>>]

NoSharedLibraryInfo ==
    [SharedLibrary |-> "", TableOfContents |-> "", StaticAnalogue |-> <<>>]

NoStubsInfo ==
    [Version |-> "", SharedLibraryInfo |-> NoSharedLibraryInfo,
     FlagExporterInfo |-> NoFlagExporterInfo]

NilError == [kind |-> "nil"]

\* the version of one entry as the loop body computes it (lines 2166-2175)
StubVersion(stubInfo) ==
    IF stubInfo.Version = ""
    THEN [err |-> FALSE, level |-> FutureApiLevel]
    ELSE ApiLevelFromUser(stubInfo.Version)

\* fmt.Errorf("not found a version(<=%s) in versionList: %v", ...)
NotFoundError(stubs, max) ==
    [kind |-> "notfound",
     ceiling |-> ApiLevelString(max),
     versionList |-> [k \in 1..Len(stubs) |-> stubs[k].Version]]

RECURSIVE ChooseScan(_, _, _)
\* iteration i (0-based) of the loop of chooseSdkVersion and what follows it
ChooseScan(stubs, max, i) ==
    IF i >= Len(stubs)
    THEN [entry |-> NoStubsInfo, err |-> NotFoundError(stubs, max)]
    ELSE LET stubInfo == stubs[Len(stubs) - i]
             ver == StubVersion(stubInfo)
         IN  IF ver.err
             THEN [entry |-> NoStubsInfo,
                   err |-> [kind |-> "parse", raw |-> stubInfo.Version]]
             ELSE IF LessThanOrEqualTo(ver.level, max)
                  THEN [entry |-> stubInfo, err |-> NilError]
                  ELSE ChooseScan(stubs, max, i + 1)

\* faulty variant: the scan runs oldest to newest
RECURSIVE ChooseScanOldestFirst(_, _, _)
ChooseScanOldestFirst(stubs, max, i) ==
    IF i >= Len(stubs)
    THEN [entry |-> NoStubsInfo, err |-> NotFoundError(stubs, max)]
    ELSE LET stubInfo == stubs[i + 1]
             ver == StubVersion(stubInfo)
         IN  IF ver.err
             THEN [entry |-> NoStubsInfo,
                   err |-> [kind |-> "parse", raw |-> stubInfo.Version]]
             ELSE IF LessThanOrEqualTo(ver.level, max)
                  THEN [entry |-> stubInfo, err |-> NilError]
                  ELSE ChooseScanOldestFirst(stubs, max, i + 1)

chooseSdkVersion_OldestFirst(stubs, max) == ChooseScanOldestFirst(stubs, max, 0)

\* faulty variant: the comparison is strict (<) instead of <=
RECURSIVE ChooseScanStrict(_, _, _)
ChooseScanStrict(stubs, max, i) ==
    IF i >= Len(stubs)
    THEN [entry |-> NoStubsInfo, err |-> NotFoundError(stubs, max)]
    ELSE LET stubInfo == stubs[Len(stubs) - i]
             ver == StubVersion(stubInfo)
         IN  IF ver.err
             THEN [entry |-> NoStubsInfo,
                   err |-> [kind |-> "parse", raw |-> stubInfo.Version]]
             ELSE IF ver.level < max
                  THEN [entry |-> stubInfo, err |-> NilError]
                  ELSE ChooseScanStrict(stubs, max, i + 1)

chooseSdkVersion_Strict(stubs, max) == ChooseScanStrict(stubs, max, 0)

chooseSdkVersion(stubs, max) == ChooseScan(stubs, max, 0)

(***************************************************************************)
(* Harness of chooseSdkVersion: every table of at most MaxStubs entries    *)
(* over VersionLabels and every ceiling.  Entry k of a table carries the   *)
(* artifact "stub<k>", so that entries of equal version are told apart.    *)
(***************************************************************************)
LabelSeqs(n) == UNION {[1..k -> VersionLabels] : k \in 0..n}

StubPath(k) == "stub" \o ToString(k)

StubTableOf(labels) ==
    [k \in 1..Len(labels) |->
        [Version |-> labels[k],
         SharedLibraryInfo |->
            [NoSharedLibraryInfo EXCEPT !.SharedLibrary = StubPath(k) \o ".so"],
         FlagExporterInfo |->
            [NoFlagExporterInfo EXCEPT !.Flags = <<"-D" \o StubPath(k)>>]]]

ChooseIdle ==
    /\ stubsInfo = <<>>
    /\ maxSdkVersion = FutureApiLevel
    /\ chooseRet = [entry |-> NoStubsInfo, err |-> NilError]
    /\ choosePc = "idle"

ChooseInit ==
    /\ stubsInfo \in {StubTableOf(l) : l \in LabelSeqs(MaxStubs)}
    /\ maxSdkVersion \in ApiLevels
    /\ chooseRet = [entry |-> NoStubsInfo, err |-> NilError]
    /\ choosePc = "call"

ChooseCall ==
    /\ choosePc = "call"
    /\ chooseRet' = chooseSdkVersion(stubsInfo, maxSdkVersion)
    /\ choosePc' = "done"
    /\ UNCHANGED <<stubsInfo, maxSdkVersion>>
    /\ UNCHANGED <<orderVars, pathsVars, laterVars>>

(***************************************************************************)
(* Path lists (android.Paths helpers)                                      *)
(***************************************************************************)
InList(x, s) == \E k \in 1..Len(s) : s[k] = x

Range(s) == {s[k] : k \in 1..Len(s)}

ReverseSeq(s) == [k \in 1..Len(s) |-> s[Len(s) + 1 - k]]

RECURSIVE FirstUniqueFrom(_, _)
FirstUniqueFrom(seen, s) ==
    IF s = <<>> THEN seen
    ELSE FirstUniqueFrom(IF InList(Head(s), seen) THEN seen
                         ELSE Append(seen, Head(s)), Tail(s))

\* android.FirstUniquePaths / FirstUniqueStrings: drop every element that
\* occurred earlier in the list
FirstUniquePaths(s) == FirstUniqueFrom(<<>>, s)

\* android.FilterPathList(list, filter): the elements of list that are not
\* in filter (remainder) and those that are (filtered), each in list order
FilterPathList(list, filter) ==
    [remainder |-> SelectSeq(list, LAMBDA p : ~InList(p, filter)),
     filtered |-> SelectSeq(list, LAMBDA p : InList(p, filter))]

(***************************************************************************)
(* android.DepSet with order TOPOLOGICAL.  A set is the record of its      *)
(* direct paths and its transitive sets, both in the order they were       *)
(* given to the builder.                                                   *)
(***************************************************************************)
NewDepSet(direct, transitive) == [direct |-> direct, transitive |-> transitive]

RECURSIVE ConcatAll(_)
ConcatAll(ss) == IF ss = <<>> THEN <<>> ELSE Head(ss) \o ConcatAll(Tail(ss))

RECURSIVE DepSetWalk(_)
\* DepSet.walk of a TOPOLOGICAL set: a post-order walk over the reversed
\* transitive sets, each set contributing its reversed direct paths.  (The
\* walk skips a set it has already visited; the paths of such a set are in
\* the list already, so FirstUniquePaths makes the skip unobservable.)
DepSetWalk(d) ==
    ConcatAll([k \in 1..Len(d.transitive) |->
                  DepSetWalk(ReverseSeq(d.transitive)[k])])
    \o ReverseSeq(d.direct)

\* DepSet.ToList of a TOPOLOGICAL set: the walk, duplicates removed (first
\* occurrence kept), reversed
ToList(d) == ReverseSeq(FirstUniquePaths(DepSetWalk(d)))

(***************************************************************************)
(* orderStaticModuleDeps                                                   *)
(***************************************************************************)
\* the transitive sets handed to the builder: one per static dependency
\* (line 2579), then one per shared dependency that has a static analogue
\* (lines 2581-2585).  StaticAnalogue is <<>> for nil, <<info>> otherwise.
ContributingSets(statics, shareds) ==
    [k \in 1..Len(statics) |-> statics[k].TransitiveStaticLibrariesForOrdering]
    \o ConcatAll([k \in 1..Len(shareds) |->
          IF shareds[k].StaticAnalogue # <<>>
          THEN <<shareds[k].StaticAnalogue[1].TransitiveStaticLibrariesForOrdering>>
          ELSE <<>>])

\* staticPaths as collected by the first loop (line 2578)
DirectStaticPaths(statics) == [k \in 1..Len(statics) |-> statics[k].StaticLibrary]

\* faulty variant: the length check of lines 2594-2597 is missing
orderStaticModuleDeps_NoCheck(statics, shareds) ==
    LET transitiveStaticLibs == NewDepSet(<<>>, ContributingSets(statics, shareds))
        orderedTransitiveStaticLibs == ToList(transitiveStaticLibs)
        staticPaths == FirstUniquePaths(DirectStaticPaths(statics))
        orderedStaticPaths ==
            FilterPathList(orderedTransitiveStaticLibs, staticPaths).filtered
    IN  [panic |-> FALSE, missing |-> <<>>,
         ordered |-> orderedStaticPaths, transitive |-> transitiveStaticLibs]

\* faulty variant: the arguments of FilterPathList are swapped, so the direct
\* dependencies keep their declared order
orderStaticModuleDeps_DeclaredOrder(statics, shareds) ==
    LET transitiveStaticLibs == NewDepSet(<<>>, ContributingSets(statics, shareds))
        orderedTransitiveStaticLibs == ToList(transitiveStaticLibs)
        staticPaths == FirstUniquePaths(DirectStaticPaths(statics))
        orderedStaticPaths ==
            FilterPathList(staticPaths, orderedTransitiveStaticLibs).filtered
    IN  IF Len(orderedStaticPaths) # Len(staticPaths)
        THEN [panic |-> TRUE,
              missing |-> FilterPathList(staticPaths, orderedStaticPaths).remainder,
              ordered |-> <<>>, transitive |-> NewDepSet(<<>>, <<>>)]
        ELSE [panic |-> FALSE, missing |-> <<>>,
              ordered |-> orderedStaticPaths, transitive |-> transitiveStaticLibs]

\* faulty variant: staticPaths is not deduplicated (line 2591 missing)
orderStaticModuleDeps_NoDedup(statics, shareds) ==
    LET transitiveStaticLibs == NewDepSet(<<>>, ContributingSets(statics, shareds))
        orderedTransitiveStaticLibs == ToList(transitiveStaticLibs)
        staticPaths == DirectStaticPaths(statics)
        orderedStaticPaths ==
            FilterPathList(orderedTransitiveStaticLibs, staticPaths).filtered
    IN  IF Len(orderedStaticPaths) # Len(staticPaths)
        THEN [panic |-> TRUE,
              missing |-> FilterPathList(staticPaths, orderedStaticPaths).remainder,
              ordered |-> <<>>, transitive |-> NewDepSet(<<>>, <<>>)]
        ELSE [panic |-> FALSE, missing |-> <<>>,
              ordered |-> orderedStaticPaths, transitive |-> transitiveStaticLibs]

\* orderStaticModuleDeps: panic is TRUE when the call panics (then nothing
\* is returned: ordered and transitive are empty), else ordered and
\* transitive are the two return values
orderStaticModuleDeps(statics, shareds) ==
    LET transitiveStaticLibs == NewDepSet(<<>>, ContributingSets(statics, shareds))
        orderedTransitiveStaticLibs == ToList(transitiveStaticLibs)
        staticPaths == FirstUniquePaths(DirectStaticPaths(statics))
        orderedStaticPaths ==
            FilterPathList(orderedTransitiveStaticLibs, staticPaths).filtered
    IN  IF Len(orderedStaticPaths) # Len(staticPaths)
        THEN [panic |-> TRUE,
              missing |-> FilterPathList(staticPaths, orderedStaticPaths).remainder,
              ordered |-> <<>>, transitive |-> NewDepSet(<<>>, <<>>)]
        ELSE [panic |-> FALSE, missing |-> <<>>,
              ordered |-> orderedStaticPaths, transitive |-> transitiveStaticLibs]

(***************************************************************************)
(* Harness of orderStaticModuleDeps.  The arguments are built from a pool  *)
(* of StaticLibraryInfo values:                                            *)
(*  - the static libraries liba, libb, libc of a module graph in which     *)
(*    liba has static_libs [libb, libc], libb has [libc] and libc none;    *)
(*    each publishes its own archive in front of its dependencies' sets;   *)
(*  - providers of liba.a and libb.a whose set is empty or lists liba.a    *)
(*    and libb.a in one of the two orders.                                 *)
(***************************************************************************)
StaticLibsOf(lib) ==
    CASE lib = "liba" -> <<"libb", "libc">>
      [] lib = "libb" -> <<"libc">>
      [] OTHER -> <<>>

ArchiveOf(lib) == lib \o ".a"

RECURSIVE LibraryStaticInfo(_)
\* the StaticLibraryInfo a static library publishes: its archive, and the
\* set made of the archive (direct) and the set its own depsToPaths got from
\* orderStaticModuleDeps (transitive)
LibraryStaticInfo(lib) ==
    LET deps == [k \in 1..Len(StaticLibsOf(lib)) |->
                    LibraryStaticInfo(StaticLibsOf(lib)[k])]
    IN  [StaticLibrary |-> ArchiveOf(lib),
         TransitiveStaticLibrariesForOrdering |->
             NewDepSet(<<ArchiveOf(lib)>>,
                       <<orderStaticModuleDeps(deps, <<>>).transitive>>)]

FlatStaticInfo(lib, paths) ==
    [StaticLibrary |-> ArchiveOf(lib),
     TransitiveStaticLibrariesForOrdering |-> NewDepSet(paths, <<>>)]

StaticInfoPool ==
    {LibraryStaticInfo(lib) : lib \in {"liba", "libb", "libc"}}
    \cup {FlatStaticInfo(lib, paths) :
            lib \in {"liba", "libb"},
            paths \in {<<>>, <<"liba.a", "libb.a">>, <<"libb.a", "liba.a">>}}

SharedInfoOf(analogue) ==
    [SharedLibrary |-> "libshared.so", TableOfContents |-> "",
     StaticAnalogue |-> analogue]

SharedInfoPool ==
    {SharedInfoOf(<<>>)} \cup {SharedInfoOf(<<i>>) : i \in StaticInfoPool}

NoOrderRet == [panic |-> FALSE, missing |-> <<>>, ordered |-> <<>>,
               transitive |-> NewDepSet(<<>>, <<>>)]

OrderIdle ==
    /\ staticDeps = <<>>
    /\ sharedDeps = <<>>
    /\ orderRet = NoOrderRet
    /\ orderPc = "idle"

OrderInit ==
    /\ staticDeps = <<>>
    /\ sharedDeps = <<>>
    /\ orderRet = NoOrderRet
    /\ orderPc = "build"

\* depsToPaths line 2428: a normal static edge adds its StaticLibraryInfo
AddStaticDep ==
    /\ orderPc = "build"
    /\ Len(staticDeps) < MaxStaticDeps
    /\ \E info \in StaticInfoPool : staticDeps' = Append(staticDeps, info)
    /\ UNCHANGED <<sharedDeps, orderRet, orderPc>>
    /\ UNCHANGED <<chooseVars, pathsVars, laterVars>>

\* depsToPaths line 2385: a normal shared edge adds its SharedLibraryInfo
AddSharedDep ==
    /\ orderPc = "build"
    /\ Len(sharedDeps) < MaxSharedDeps
    /\ \E info \in SharedInfoPool : sharedDeps' = Append(sharedDeps, info)
    /\ UNCHANGED <<staticDeps, orderRet, orderPc>>
    /\ UNCHANGED <<chooseVars, pathsVars, laterVars>>

\* depsToPaths line 2548
OrderCall ==
    /\ orderPc = "build"
    /\ orderRet' = orderStaticModuleDeps(staticDeps, sharedDeps)
    /\ orderPc' = "done"
    /\ UNCHANGED <<staticDeps, sharedDeps>>
    /\ UNCHANGED <<chooseVars, pathsVars, laterVars>>

(***************************************************************************)
(* The module graph depsToPaths runs on.  The producers are fixed; the     *)
(* consumer's variant and the build configuration are chosen in Init.      *)
(***************************************************************************)
ConsumerName == "consumer"

\* android.SdkVersion_Android10
SdkVersion_Android10 == 29

\* the modules directly contained in each APEX (android.ApexContents)
ApexDirectContents(apex) ==
    CASE apex = "com.android.one" -> {"libapex", "libllndk"}
      [] OTHER -> {}

\* ApexContents.DirectlyInApex
DirectlyInApex(apex, name) == name \in ApexDirectContents(apex)

\* android.DirectlyInAllApexes(apexInfo, name)
DirectlyInAllApexes(apexes, name) ==
    \A k \in 1..Len(apexes) : DirectlyInApex(apexes[k], name)

\* faulty variant: the producer need only be in one of the consumer's APEXes
DirectlyInSomeApex(apexes, name) ==
    \E k \in 1..Len(apexes) : DirectlyInApex(apexes[k], name)

ExporterOf(name) ==
    [IncludeDirs |-> <<"include/common", "include/" \o name>>,
     SystemIncludeDirs |-> <<"sysinclude/" \o name>>,
     Flags |-> <<"-DCOMMON", "-D" \o name>>,
     Deps |-> <<name \o ".h">>,
     GeneratedHeaders |-> <<>>]

\* one entry of a producer's SharedLibraryImplementationStubsInfo
StubsInfoOf(name, version) ==
    [Version |-> version,
     SharedLibraryInfo |->
        [SharedLibrary |-> name \o ".stub." \o version \o ".so",
         TableOfContents |-> name \o ".stub." \o version \o ".so.toc",
         StaticAnalogue |-> <<>>],
     FlagExporterInfo |-> ExporterOf(name \o ".stub." \o version)]

NoStaticLibraryInfo ==
    [StaticLibrary |-> "", TransitiveStaticLibrariesForOrdering |-> NewDepSet(<<>>, <<>>)]

\* a module that publishes nothing
NoModuleInfo ==
    [hasSharedInfo |-> FALSE, SharedLibraryInfo |-> NoSharedLibraryInfo,
     Stubs |-> <<>>, buildStubs |-> FALSE, AnyVariantDirectlyInAnyApex |-> FALSE,
     hasStaticInfo |-> FALSE, StaticLibraryInfo |-> NoStaticLibraryInfo,
     isStatic |-> FALSE, OutputFile |-> "", FlagExporterInfo |-> NoFlagExporterInfo]

SharedModule(name, stubs, buildStubs, inApex) ==
    [NoModuleInfo EXCEPT
        !.hasSharedInfo = TRUE,
        !.SharedLibraryInfo =
            [SharedLibrary |-> name \o ".so", TableOfContents |-> "",
             StaticAnalogue |-> <<>>],
        !.Stubs = stubs, !.buildStubs = buildStubs,
        !.AnyVariantDirectlyInAnyApex = inApex,
        !.OutputFile = name \o ".so",
        !.FlagExporterInfo = ExporterOf(name)]

StaticModule(name) ==
    [NoModuleInfo EXCEPT
        !.hasStaticInfo = TRUE,
        !.StaticLibraryInfo = LibraryStaticInfo(name),
        !.isStatic = TRUE,
        !.OutputFile = ArchiveOf(name),
        !.FlagExporterInfo = ExporterOf(name)]

\* a library whose static and shared variants publish StaticLibraryInfo and
\* SharedLibraryInfo with no artifact path: android.OptionalPathForPath of
\* the nil path is not Valid()
NoOutputModule(name) ==
    [NoModuleInfo EXCEPT
        !.hasSharedInfo = TRUE,
        !.hasStaticInfo = TRUE,
        !.isStatic = TRUE,
        !.FlagExporterInfo = ExporterOf(name)]

\* the modules of the graph that is resolved as a whole, consumers first
ResolveModules == <<"libtop", "libmid", "libbase">>

ResolveNames == {ResolveModules[k] : k \in 1..Len(ResolveModules)}

\* what each producer publishes (providers and module properties); a module
\* of the graph that is resolved as a whole publishes what its own
\* GenerateAndroidBuildActions has set
ModuleInfo(name) ==
    CASE name \in ResolveNames -> published[name]
      [] name = "libplain" -> SharedModule(name, <<>>, FALSE, FALSE)
      [] name = "libapex" ->
            SharedModule(name, <<StubsInfoOf(name, "2"), StubsInfoOf(name, "3")>>,
                         FALSE, TRUE)
      [] name = "libstubs" ->
            SharedModule(name, <<StubsInfoOf(name, "1")>>, FALSE, FALSE)
      \* the variant of libapex in the image of a host, ramdisk, vendor_ramdisk
      \* or recovery consumer: the library has no version variants there, so
      \* the variant publishes no stub table
      [] name = "libapex.image" -> SharedModule(name, <<>>, FALSE, TRUE)
      [] name = "libllndk" ->
            SharedModule(name, <<StubsInfoOf(name, "1"), StubsInfoOf(name, "")>>,
                         TRUE, TRUE)
      [] name \in {"liba", "libb", "libc"} -> StaticModule(name)
      [] name = "libhdr" ->
            [NoModuleInfo EXCEPT !.FlagExporterInfo = ExporterOf(name)]
      [] name = "libnoout" -> NoOutputModule(name)
      [] OTHER -> NoModuleInfo

\* libraryDependencyTag
LibTag(kind, order) ==
    [Kind |-> kind, Order |-> order, wholeStatic |-> FALSE, reexportFlags |-> FALSE,
     explicitlyVersioned |-> FALSE, ndk |-> FALSE, staticUnwinder |-> FALSE,
     makeSuffix |-> ""]

Edge(name, tag) == [name |-> name, tag |-> tag]

\* the dependency edges a consumer of the model may have
EdgePool ==
    {Edge(n, LibTag("shared", "normal")) :
        n \in {"libplain", "libapex", "libstubs", "libllndk", "libmissing"}}
    \cup {Edge("libapex", [LibTag("shared", "normal") EXCEPT !.explicitlyVersioned = TRUE]),
          Edge("libapex", LibTag("shared", "late")),
          Edge("libplain", [LibTag("shared", "early") EXCEPT !.reexportFlags = TRUE]),
          Edge("liba", LibTag("static", "normal")),
          Edge("libb", [LibTag("static", "normal") EXCEPT !.reexportFlags = TRUE]),
          Edge("libc", [LibTag("static", "normal") EXCEPT !.staticUnwinder = TRUE]),
          Edge("liba", [LibTag("static", "normal") EXCEPT !.wholeStatic = TRUE]),
          Edge("libmissing", LibTag("static", "late")),
          Edge("libnoout", LibTag("shared", "normal")),
          Edge("libnoout", LibTag("static", "normal")),
          Edge("libhdr", [LibTag("header", "normal") EXCEPT !.reexportFlags = TRUE])}

\* the minimum SDK versions an APEX variant of the consumer may have
ConsumerMinSdkVersions == {1, MaxApi, FutureApiLevel}

\* the consumer's variant: apexInfo (IsForPlatform, MinSdkVersion,
\* ApexContents as the list of APEX names), ApexTestForInfo, UseVndk(),
\* bootstrap(); and of the configuration AllowMissingDependencies() and
\* whether SanitizeDevice() has "hwaddress".  Image is "" for a device
\* module of the core, vendor or product image; Library is "shared" for the
\* shared variant of a library ("": the edges of the module are library
\* edges only), buildStubs is c.library.buildStubs().
Consumers ==
    {[UseVndk |-> v, Bootstrap |-> b, ForPlatform |-> TRUE,
      MinSdkVersion |-> FutureApiLevel, InApexes |-> <<>>, TestFor |-> t,
      AllowMissingDependencies |-> a, Hwasan |-> h, Image |-> "", Library |-> "", buildStubs |-> FALSE] :
        v \in BOOLEAN, b \in BOOLEAN, a \in BOOLEAN, h \in BOOLEAN,
        t \in {<<>>, <<"com.android.one">>}}
    \cup
    {[UseVndk |-> v, Bootstrap |-> b, ForPlatform |-> FALSE,
      MinSdkVersion |-> m, InApexes |-> x, TestFor |-> <<>>,
      AllowMissingDependencies |-> a, Hwasan |-> h, Image |-> "", Library |-> "", buildStubs |-> FALSE] :
        v \in BOOLEAN, b \in BOOLEAN, a \in BOOLEAN, h \in BOOLEAN,
        m \in ConsumerMinSdkVersions,
        x \in {<<"com.android.one">>, <<"com.android.one", "com.android.two">>}}

\* Host(), InRamdisk(), InVendorRamdisk(), InRecovery()
Images == {"host", "ramdisk", "vendor_ramdisk", "recovery"}

\* the platform consumers of every image; a vendor or product module is of
\* no other image
ImageConsumers ==
    {[UseVndk |-> FALSE, Bootstrap |-> b, ForPlatform |-> TRUE,
      MinSdkVersion |-> FutureApiLevel, InApexes |-> <<>>, TestFor |-> t,
      AllowMissingDependencies |-> a, Hwasan |-> h, Image |-> i, Library |-> "", buildStubs |-> FALSE] :
        b \in BOOLEAN, a \in BOOLEAN, h \in BOOLEAN,
        t \in {<<>>, <<"com.android.one">>}, i \in Images \cup {""}}

\* the edges of a host, ramdisk, vendor_ramdisk or recovery consumer lead to
\* the variants of its own image; no edge is explicitly versioned, as
\* CanBeOrLinkAgainstVersionVariants is false for the consumer (line 1672)
ImageEdgePool ==
    {Edge("libapex.image", LibTag("shared", "normal")),
     Edge("libapex.image", LibTag("shared", "late")),
     Edge("libplain", LibTag("shared", "normal")),
     Edge("liba", LibTag("static", "normal")),
     Edge("libmissing", LibTag("shared", "normal"))}

\* the shared variant of a library, a platform module of the core image,
\* that is or is not a stubs build
LibraryConsumers ==
    {[UseVndk |-> FALSE, Bootstrap |-> FALSE, ForPlatform |-> TRUE,
      MinSdkVersion |-> FutureApiLevel, InApexes |-> <<>>, TestFor |-> <<>>,
      AllowMissingDependencies |-> a, Hwasan |-> FALSE, Image |-> "",
      Library |-> "shared", buildStubs |-> b] :
        a \in BOOLEAN, b \in BOOLEAN}

\* a dependency tag that is no libraryDependencyTag: genSourceDepTag,
\* genHeaderDepTag, genHeaderExportDepTag, linkerFlagsDepTag, reuseObjTag,
\* android.ProtoPluginDepTag, llndkImplDep
OtherTags ==
    {"genSource", "genHeader", "genHeaderExport", "linkerFlags", "reuseObj",
     "protoPlugin", "llndkImpl"}

OtherTag(kind) == LibTag(kind, "normal")

\* the modules that are no cc modules: dep.(LinkableInterface) fails
NotLinkable == {"genhdr", "genflags", "genmany", "filegroup", "protoplugin"}

\* genrule.SourceFileGenerator of a module
NoGenerator ==
    [isGenerator |-> FALSE, GeneratedSourceFiles |-> <<>>, GeneratedDeps |-> <<>>,
     GeneratedHeaderDirs |-> <<>>]

GeneratorInfo(name) ==
    CASE name = "genhdr" ->
            [isGenerator |-> TRUE,
             GeneratedSourceFiles |-> <<"gen/genhdr/a.h">>,
             GeneratedDeps |-> <<"gen/genhdr/a.h">>,
             GeneratedHeaderDirs |-> <<"gen/genhdr">>]
      [] name = "genflags" ->
            [isGenerator |-> TRUE,
             GeneratedSourceFiles |-> <<"gen/genflags/flags.txt">>,
             GeneratedDeps |-> <<"gen/genflags/flags.txt">>,
             GeneratedHeaderDirs |-> <<"gen/genflags">>]
      [] name = "genmany" ->
            [isGenerator |-> TRUE,
             GeneratedSourceFiles |-> <<"gen/genmany/a.txt", "gen/genmany/b.txt">>,
             GeneratedDeps |-> <<"gen/genmany/a.txt", "gen/genmany/b.txt">>,
             GeneratedHeaderDirs |-> <<"gen/genmany">>]
      [] OTHER -> NoGenerator

\* StaticLibraryInfo.ReuseObjects of the static variant of a library
ReuseObjectsOf(name) == <<name \o ".o">>

\* the edges of the shared variant of a library: library edges, edges to
\* generators and the edge to the static variant whose objects it reuses
LibraryEdgePool ==
    {Edge("genhdr", OtherTag("genSource")),
     Edge("genhdr", OtherTag("genHeader")),
     Edge("genhdr", OtherTag("genHeaderExport")),
     Edge("filegroup", OtherTag("genSource")),
     Edge("filegroup", OtherTag("genHeaderExport")),
     Edge("genflags", OtherTag("linkerFlags")),
     Edge("genmany", OtherTag("linkerFlags")),
     Edge("filegroup", OtherTag("linkerFlags")),
     Edge("protoplugin", OtherTag("protoPlugin")),
     Edge("libplain", OtherTag("protoPlugin")),
     Edge("libplain", OtherTag("llndkImpl")),
     Edge("liba", OtherTag("reuseObj")),
     Edge("liba", LibTag("static", "normal")),
     Edge("libb", [LibTag("static", "normal") EXCEPT !.reexportFlags = TRUE]),
     Edge("libplain", [LibTag("shared", "early") EXCEPT !.reexportFlags = TRUE]),
     Edge("libhdr", [LibTag("header", "normal") EXCEPT !.reexportFlags = TRUE])}

\* the edges a consumer may have
EdgesOf(c) ==
    IF c.Image # "" THEN ImageEdgePool
    ELSE IF c.Library = "shared" THEN LibraryEdgePool
    ELSE EdgePool

(***************************************************************************)
(* Module.depsToPaths                                                      *)
(***************************************************************************)
EmptyPathDeps ==
    [SharedLibs |-> <<>>, EarlySharedLibs |-> <<>>, LateSharedLibs |-> <<>>,
     SharedLibsDeps |-> <<>>, EarlySharedLibsDeps |-> <<>>, LateSharedLibsDeps |-> <<>>,
     StaticLibs |-> <<>>, LateStaticLibs |-> <<>>, WholeStaticLibs |-> <<>>,
     TranstiveStaticLibrariesForOrdering |-> NewDepSet(<<>>, <<>>),
     Objs |-> <<>>, GeneratedSources |-> <<>>, LinkerFlagsFile |-> "",
     IncludeDirs |-> <<>>, SystemIncludeDirs |-> <<>>, GeneratedDeps |-> <<>>,
     Flags |-> <<>>,
     ReexportedDirs |-> <<>>, ReexportedSystemDirs |-> <<>>, ReexportedFlags |-> <<>>,
     ReexportedDeps |-> <<>>, ReexportedGeneratedHeaders |-> <<>>]

EmptyLocal ==
    [depPaths |-> EmptyPathDeps, directStaticDeps |-> <<>>, directSharedDeps |-> <<>>,
     errors |-> <<>>, missingDeps |-> <<>>]

\* ctx.ModuleErrorf: an error against the module being resolved
ModuleErrorf(L, text) ==
    [L EXCEPT !.errors = Append(@, [module |-> ConsumerName, text |-> text])]

\* ctx.OtherModuleErrorf(dep, ...): an error against another module
OtherModuleErrorf(L, depName, text) ==
    [L EXCEPT !.errors = Append(@, [module |-> depName, text |-> text])]

\* ctx.AddMissingDependencies
AddMissingDependencies(L, depName) ==
    [L EXCEPT !.missingDeps = Append(@, depName)]

\* the pattern of lines 2319-2323, 2394-2398 and 2461-2465
ErrorOrMissing(c, L, depName, what) ==
    IF ~c.AllowMissingDependencies
    THEN ModuleErrorf(L, [kind |-> what, dep |-> depName])
    ELSE AddMissingDependencies(L, depName)

\* faulty variant: only the include directories are re-exported
reexportExporter_DirsOnly(dp, exporter) ==
    [dp EXCEPT
        !.ReexportedDirs = @ \o exporter.IncludeDirs,
        !.ReexportedSystemDirs = @ \o exporter.SystemIncludeDirs]

\* reexportExporter (lines 2194-2200)
reexportExporter(dp, exporter) ==
    [dp EXCEPT
        !.ReexportedDirs = @ \o exporter.IncludeDirs,
        !.ReexportedSystemDirs = @ \o exporter.SystemIncludeDirs,
        !.ReexportedFlags = @ \o exporter.Flags,
        !.ReexportedDeps = @ \o exporter.Deps,
        !.ReexportedGeneratedHeaders = @ \o exporter.GeneratedHeaders]

\* lines 2203-2214: the ceiling for stub selection
ApexSdkVersionOf(c) ==
    IF c.Hwasan THEN FutureApiLevel
    ELSE IF ~c.ForPlatform THEN c.MinSdkVersion
    ELSE FutureApiLevel

\* faulty variant: the decision is taken for explicitly-versioned edges as well
StubDecisionApplies_IgnoringExplicit(tag, dep) == Len(dep.Stubs) > 0

\* line 2329: is the stub-versus-implementation decision taken for this edge
StubDecisionApplies(tag, dep) ==
    ~tag.explicitlyVersioned /\ Len(dep.Stubs) > 0

\* the loop of lines 2348-2354
BundledWith(c, depName) ==
    \E k \in 1..Len(c.TestFor) : DirectlyInApex(c.TestFor[k], depName)

\* faulty variant: the platform rule is tried before the LLNDK rule
UseStubs_PlatformRuleFirst(c, dep, depName) ==
    IF c.ForPlatform
    THEN dep.AnyVariantDirectlyInAnyApex /\ ~c.Bootstrap /\ ~BundledWith(c, depName)
    ELSE IF dep.buildStubs /\ c.UseVndk
         THEN TRUE
         ELSE ~DirectlyInAllApexes(c.InApexes, depName)

\* faulty variant: the exception for a consumer bundled with the APEX is missing
UseStubs_NoBundledException(c, dep, depName) ==
    IF dep.buildStubs /\ c.UseVndk
    THEN ~c.ForPlatform
    ELSE IF c.ForPlatform
         THEN dep.AnyVariantDirectlyInAnyApex /\ ~c.Bootstrap
         ELSE ~DirectlyInAllApexes(c.InApexes, depName)

\* faulty variant: rule 3 asks for the producer to be in some APEX of the consumer
UseStubs_SomeApex(c, dep, depName) ==
    IF dep.buildStubs /\ c.UseVndk
    THEN ~c.ForPlatform
    ELSE IF c.ForPlatform
         THEN dep.AnyVariantDirectlyInAnyApex /\ ~c.Bootstrap /\ ~BundledWith(c, depName)
         ELSE ~DirectlyInSomeApex(c.InApexes, depName)

\* faulty variant: a bootstrap module is treated as any platform module
UseStubs_BootstrapIgnored(c, dep, depName) ==
    IF dep.buildStubs /\ c.UseVndk
    THEN ~c.ForPlatform
    ELSE IF c.ForPlatform
         THEN dep.AnyVariantDirectlyInAnyApex /\ ~BundledWith(c, depName)
         ELSE ~DirectlyInAllApexes(c.InApexes, depName)

\* lines 2330-2359: useStubs
UseStubs(c, dep, depName) ==
    IF dep.buildStubs /\ c.UseVndk
    THEN ~c.ForPlatform
    ELSE IF c.ForPlatform
         THEN dep.AnyVariantDirectlyInAnyApex /\ ~c.Bootstrap /\ ~BundledWith(c, depName)
         ELSE ~DirectlyInAllApexes(c.InApexes, depName)

\* line 2366: the failure of chooseSdkVersion is reported with
\* ctx.OtherModuleErrorf(dep, err.Error())
StubVersionError(L, depName, err) == OtherModuleErrorf(L, depName, err)

\* what a visit decided, for the properties
NoDecision ==
    [decided |-> FALSE, useStubs |-> FALSE, chooseCalled |-> FALSE,
     chosen |-> [entry |-> NoStubsInfo, err |-> NilError],
     linkFile |-> "", exporter |-> NoFlagExporterInfo, completed |-> FALSE]

NoVisit == [edge |-> Edge("", LibTag("header", "normal")), d |-> NoDecision]

\* lines 2437-2493: what follows the switch on the kind of the edge.  ptr and
\* depPtr name the list of depPaths they point at ("" for nil).
LinkTail(c, L, edge, ptr, depPtr, linkFile, depFile, exporter, d) ==
    LET dep == ModuleInfo(edge.name)
        tag == edge.tag
        dd == [d EXCEPT !.linkFile = linkFile, !.exporter = exporter]
    IN  IF tag.Kind = "static" /\ ~tag.wholeStatic /\ ~dep.isStatic
        THEN [L |-> ModuleErrorf(L, [kind |-> "not a static library", dep |-> edge.name]),
              d |-> dd]
        ELSE IF ptr # "" /\ linkFile = ""
        THEN [L |-> ErrorOrMissing(c, L, edge.name, "missing output file"), d |-> dd]
        ELSE
        LET dp0 == L.depPaths
            dp1 == IF ptr # "" THEN [dp0 EXCEPT ![ptr] = Append(@, linkFile)] ELSE dp0
            dp2 == IF depPtr # ""
                   THEN [dp1 EXCEPT ![depPtr] =
                            Append(@, IF depFile # "" THEN depFile ELSE linkFile)]
                   ELSE dp1
            dp3 == [dp2 EXCEPT
                       !.IncludeDirs = @ \o exporter.IncludeDirs,
                       !.SystemIncludeDirs = @ \o exporter.SystemIncludeDirs,
                       !.GeneratedDeps = @ \o exporter.Deps,
                       !.Flags = @ \o exporter.Flags]
            dp4 == IF tag.reexportFlags THEN reexportExporter(dp3, exporter) ELSE dp3
        IN  [L |-> [L EXCEPT !.depPaths = dp4], d |-> [dd EXCEPT !.completed = TRUE]]

\* lines 2377-2391: the lists a shared edge goes to
SharedPtr(order) ==
    CASE order = "early" -> "EarlySharedLibs"
      [] order = "normal" -> "SharedLibs"
      [] order = "late" -> "LateSharedLibs"

SharedDepPtr(order) ==
    CASE order = "early" -> "EarlySharedLibsDeps"
      [] order = "normal" -> "SharedLibsDeps"
      [] order = "late" -> "LateSharedLibsDeps"

\* lines 2317-2391: a shared edge
VisitShared(c, apexSdk, L, edge) ==
    LET depName == edge.name
        dep == ModuleInfo(depName)
        tag == edge.tag
    IN  IF ~dep.hasSharedInfo
        THEN [L |-> ErrorOrMissing(c, L, depName, "not a shared library"),
              d |-> NoDecision]
        ELSE
        LET decided == StubDecisionApplies(tag, dep)
            useStubs == decided /\ UseStubs(c, dep, depName)
            chosen == IF useStubs THEN chooseSdkVersion(dep.Stubs, apexSdk)
                      ELSE [entry |-> NoStubsInfo, err |-> NilError]
            d == [NoDecision EXCEPT !.decided = decided, !.useStubs = useStubs,
                                    !.chooseCalled = useStubs, !.chosen = chosen]
        IN  IF useStubs /\ chosen.err # NilError
            THEN [L |-> StubVersionError(L, depName, chosen.err), d |-> d]
            ELSE
            LET sharedLibraryInfo == IF useStubs THEN chosen.entry.SharedLibraryInfo
                                     ELSE dep.SharedLibraryInfo
                depExporterInfo == IF useStubs THEN chosen.entry.FlagExporterInfo
                                   ELSE dep.FlagExporterInfo
                L1 == IF tag.Order = "normal"
                      THEN [L EXCEPT !.directSharedDeps = Append(@, sharedLibraryInfo)]
                      ELSE L
            IN  LinkTail(c, L1, edge, SharedPtr(tag.Order), SharedDepPtr(tag.Order),
                         sharedLibraryInfo.SharedLibrary,
                         sharedLibraryInfo.TableOfContents, depExporterInfo, d)

\* lines 2392-2435: a static edge ("early" static edges panic and are not
\* in the pool)
VisitStatic(c, L, edge) ==
    LET depName == edge.name
        dep == ModuleInfo(depName)
        tag == edge.tag
    IN  IF ~dep.hasStaticInfo
        THEN [L |-> ErrorOrMissing(c, L, depName, "not a static library"),
              d |-> NoDecision]
        ELSE
        LET staticLibraryInfo == dep.StaticLibraryInfo
            linkFile == staticLibraryInfo.StaticLibrary
        IN  IF tag.wholeStatic
            THEN LinkTail(c, L, edge, "WholeStaticLibs", "", linkFile, "",
                          dep.FlagExporterInfo, NoDecision)
            ELSE IF tag.Order = "normal"
            THEN LinkTail(c, [L EXCEPT !.directStaticDeps = Append(@, staticLibraryInfo)],
                          edge, "", "", linkFile, "", dep.FlagExporterInfo, NoDecision)
            ELSE LinkTail(c, L, edge, "LateStaticLibs", "", linkFile, "",
                          dep.FlagExporterInfo, NoDecision)

\* lines 2299-2493: the callback of VisitDirectDeps for an edge that carries
\* a libraryDependencyTag
VisitLibraryDep(c, apexSdk, L, edge) ==
    LET dep == ModuleInfo(edge.name)
        tag == edge.tag
    IN  IF tag.staticUnwinder /\ apexSdk > SdkVersion_Android10
        THEN [L |-> L, d |-> NoDecision]
        ELSE CASE tag.Kind = "header" ->
                    LinkTail(c, L, edge, "", "", dep.OutputFile, "",
                             dep.FlagExporterInfo, NoDecision)
               [] tag.Kind = "shared" -> VisitShared(c, apexSdk, L, edge)
               [] tag.Kind = "static" -> VisitStatic(c, L, edge)

\* lines 2239-2251: a genHeaderDepTag or genHeaderExportDepTag edge, and
\* what a genSourceDepTag edge falls through to
VisitGeneratedHeaders(L, edge) ==
    LET gen == GeneratorInfo(edge.name)
    IN  IF gen.isGenerator
        THEN LET dp == [L.depPaths EXCEPT
                          !.GeneratedDeps = @ \o gen.GeneratedDeps,
                          !.IncludeDirs = @ \o gen.GeneratedHeaderDirs]
             IN  IF edge.tag.Kind = "genHeaderExport"
                 THEN [L EXCEPT !.depPaths =
                         [dp EXCEPT
                            !.ReexportedDirs = @ \o gen.GeneratedHeaderDirs,
                            !.ReexportedGeneratedHeaders = @ \o gen.GeneratedSourceFiles,
                            !.ReexportedDeps = @ \o gen.GeneratedDeps]]
                 ELSE [L EXCEPT !.depPaths = dp]
        ELSE ModuleErrorf(L, [kind |-> "is not a genrule", dep |-> edge.name])

\* lines 2223-2267: a dependency that is no cc module
VisitNotLinkable(L, edge) ==
    LET gen == GeneratorInfo(edge.name)
    IN  CASE edge.tag.Kind = "genSource" ->
                VisitGeneratedHeaders(
                    IF gen.isGenerator
                    THEN [L EXCEPT !.depPaths.GeneratedSources =
                                       @ \o gen.GeneratedSourceFiles]
                    ELSE ModuleErrorf(L, [kind |-> "is not a gensrcs or genrule",
                                          dep |-> edge.name]),
                    edge)
          [] edge.tag.Kind \in {"genHeader", "genHeaderExport"} ->
                VisitGeneratedHeaders(L, edge)
          [] edge.tag.Kind = "linkerFlags" ->
                IF ~gen.isGenerator
                THEN ModuleErrorf(L, [kind |-> "is not a genrule", dep |-> edge.name])
                ELSE IF Len(gen.GeneratedSourceFiles) = 1
                THEN [L EXCEPT !.depPaths.LinkerFlagsFile = gen.GeneratedSourceFiles[1]]
                ELSE IF Len(gen.GeneratedSourceFiles) > 1
                THEN ModuleErrorf(L, [kind |-> "can only generate a single file",
                                      dep |-> edge.name])
                ELSE L
          [] OTHER -> L

\* lines 2284-2297: the reuseObjTag edge
VisitReuseObj(c, L, edge) ==
    IF ~c.buildStubs
    THEN [L EXCEPT !.depPaths =
            reexportExporter([@ EXCEPT !.Objs = @ \o ReuseObjectsOf(edge.name)],
                             ModuleInfo(edge.name).FlagExporterInfo)]
    ELSE L

\* lines 2216-2545: the callback of ctx.VisitDirectDeps.  The producers of
\* the model are of the consumer's OS and architecture.
VisitDirectDep(c, apexSdk, L, edge) ==
    IF edge.name \in NotLinkable
    THEN [L |-> VisitNotLinkable(L, edge), d |-> NoDecision]
    ELSE IF edge.tag.Kind \in {"protoPlugin", "llndkImpl"}
    THEN [L |-> L, d |-> NoDecision]
    ELSE IF edge.tag.Kind = "reuseObj"
    THEN [L |-> VisitReuseObj(c, L, edge), d |-> NoDecision]
    ELSE IF edge.tag.Kind \in {"header", "shared", "static"}
    THEN VisitLibraryDep(c, apexSdk, L, edge)
    ELSE [L |-> L, d |-> NoDecision]

\* lines 2552-2561: the lists that are deduplicated at the end
DedupPathDeps(dp) ==
    [dp EXCEPT
        !.Flags = FirstUniquePaths(@),
        !.IncludeDirs = FirstUniquePaths(@),
        !.SystemIncludeDirs = FirstUniquePaths(@),
        !.GeneratedDeps = FirstUniquePaths(@),
        !.ReexportedDirs = FirstUniquePaths(@),
        !.ReexportedSystemDirs = FirstUniquePaths(@),
        !.ReexportedFlags = FirstUniquePaths(@),
        !.ReexportedDeps = FirstUniquePaths(@),
        !.ReexportedGeneratedHeaders = FirstUniquePaths(@)]

PathsIdle ==
    /\ consumer = CHOOSE c \in Consumers : TRUE
    /\ apexSdkVersion = FutureApiLevel
    /\ local = EmptyLocal
    /\ visit = NoVisit
    /\ nVisited = 0
    /\ pathsPc = "idle"

PathsInit ==
    /\ consumer \in Consumers
    /\ apexSdkVersion = FutureApiLevel
    /\ local = EmptyLocal
    /\ visit = NoVisit
    /\ nVisited = 0
    /\ pathsPc = "start"

\* depsToPaths of a platform consumer of any image
PathsImageInit ==
    /\ consumer \in ImageConsumers
    /\ apexSdkVersion = FutureApiLevel
    /\ local = EmptyLocal
    /\ visit = NoVisit
    /\ nVisited = 0
    /\ pathsPc = "start"

\* depsToPaths of the shared variant of a library
PathsLibraryInit ==
    /\ consumer \in LibraryConsumers
    /\ apexSdkVersion = FutureApiLevel
    /\ local = EmptyLocal
    /\ visit = NoVisit
    /\ nVisited = 0
    /\ pathsPc = "start"

\* lines 2188-2214: depsToPaths up to the visit of the dependencies
PathsStart ==
    /\ pathsPc = "start"
    /\ apexSdkVersion' = ApexSdkVersionOf(consumer)
    /\ pathsPc' = "visit"
    /\ UNCHANGED <<consumer, local, visit, nVisited>>
    /\ UNCHANGED <<chooseVars, orderVars, laterVars>>

\* lines 2216-2545: one callback of ctx.VisitDirectDeps
VisitDep ==
    /\ pathsPc = "visit"
    /\ nVisited < MaxDeps
    /\ \E edge \in EdgesOf(consumer) :
          LET r == VisitDirectDep(consumer, apexSdkVersion, local, edge)
          IN  /\ local' = r.L
              /\ visit' = [edge |-> edge, d |-> r.d]
    /\ nVisited' = nVisited + 1
    /\ UNCHANGED <<consumer, apexSdkVersion, pathsPc>>
    /\ UNCHANGED <<chooseVars, orderVars, laterVars>>

\* lines 2547-2567: the static dependencies are ordered and the exported
\* lists deduplicated; a panic of orderStaticModuleDeps ends the run
PathsFinish ==
    /\ pathsPc = "visit"
    /\ LET r == orderStaticModuleDeps(local.directStaticDeps, local.directSharedDeps)
       IN  IF r.panic
           THEN /\ pathsPc' = "panic"
                /\ UNCHANGED local
           ELSE /\ pathsPc' = "done"
                /\ local' = [local EXCEPT !.depPaths =
                      DedupPathDeps([@ EXCEPT
                          !.TranstiveStaticLibrariesForOrdering = r.transitive,
                          !.StaticLibs = @ \o r.ordered])]
    /\ UNCHANGED <<consumer, apexSdkVersion, visit, nVisited>>
    /\ UNCHANGED <<chooseVars, orderVars, laterVars>>

(***************************************************************************)
(* Module.deps and Module.DepsMutator.  A module name is the sequence of   *)
(* its pieces, "#" being a piece of its own: "libc#29" is                  *)
(* <<"libc", "#", "29">>, and a suffix is appended with \o.                *)
(***************************************************************************)
ModuleName == <<"module">>

\* android.LastUniqueStrings: every string once, at its last position
LastUniqueStrings(s) == ReverseSeq(FirstUniqueFrom(<<>>, ReverseSeq(s)))

\* strings.LastIndex(name, "#"), counted from 1; 0 when there is none
RECURSIVE LastIndexOfSharp(_, _)
LastIndexOfSharp(name, k) ==
    IF k = 0 THEN 0
    ELSE IF name[k] = "#" THEN k
    ELSE LastIndexOfSharp(name, k - 1)

\* StubsLibNameAndVersion (lines 1641-1649): split name#version
\* a faulty variant: an entry that ends with '#' loses it
StubsLibNameAndVersion_TrailingSharp(name) ==
    LET sharp == LastIndexOfSharp(name, Len(name))
    IN  IF sharp # 0
        THEN [name |-> SubSeq(name, 1, sharp - 1),
              version |-> SubSeq(name, sharp + 1, Len(name))]
        ELSE [name |-> name, version |-> <<>>]

StubsLibNameAndVersion(name) ==
    LET sharp == LastIndexOfSharp(name, Len(name))
    IN  IF sharp # 0 /\ sharp # Len(name)
        THEN [name |-> SubSeq(name, 1, sharp - 1),
              version |-> SubSeq(name, sharp + 1, Len(name))]
        ELSE [name |-> name, version |-> <<>>]

\* the suffixes of the rewritten names
llndkLibrarySuffix == <<".llndk">>

ndkLibrarySuffix == <<".ndk">>

vendorPublicLibrarySuffix == <<".vendorpublic">>

\* the libraries of the NDK, the LLNDK libraries and the vendor public
\* libraries of the configuration
ndkKnownLibs == <<(<<"libc">>)>>

llndkLibraries == {<<"libc">>}

isLlndkLibrary(lib) == lib \in llndkLibraries

vendorPublicLibraries == <<(<<"libvp">>), <<"libvphidden">>>>

\* the modules that actx.OtherModuleExists finds from the module
OtherModuleExists(name) == name = <<"libvp">> \o vendorPublicLibrarySuffix

\* sysprop_library name to its implementation library
syspropImplLibraries == [n \in {<<"sysprop">>} |-> <<"liba">>]

\* config.PlatformVersionActiveCodenames()
PlatformVersionActiveCodenames == <<"S">>

\* snapshotMap: the snapshot modules registered by (name, arch)
SnapshotName(name, kind, arch) == name \o <<".vendor_" \o kind \o ".29." \o arch>>

SnapshotMapOf(kind, names) ==
    {[name |-> n, arch |-> "arm64", snapshot |-> SnapshotName(n, kind, "arm64")] :
        n \in names}

vendorSnapshotSharedLibs == SnapshotMapOf("shared", {<<"libfoo">>})

vendorSnapshotStaticLibs == SnapshotMapOf("static", {<<"liba">>, <<"libgcc_stripped">>})

vendorSnapshotHeaderLibs == SnapshotMapOf("header", {<<"libhdr">>})

vendorSnapshotObjects == SnapshotMapOf("object", {<<"crtbegin_so">>, <<"crtobj">>})

\* snapshotMap.get(name, arch)
SnapshotGet(snapshotMap, name, arch) ==
    IF \E e \in snapshotMap : e.name = name /\ e.arch = arch
    THEN [ok |-> TRUE,
          snapshot |-> (CHOOSE e \in snapshotMap : e.name = name /\ e.arch = arch).snapshot]
    ELSE [ok |-> FALSE, snapshot |-> <<>>]

\* UseVndk, canUseSdk, UseSdk (lines 904-917)
UseVndk(c) == c.VndkVersion # ""

canUseSdk(c) ==
    c.Os = "android" /\ ~UseVndk(c) /\ ~c.InRamdisk /\ ~c.InRecovery /\ ~c.InVendorRamdisk

UseSdk(c) == canUseSdk(c) /\ c.Sdk_version # ""

\* moduleContextImpl.sdkVersion (lines 1107-1119)
sdkVersion(c) ==
    IF c.Os = "android"
    THEN IF UseVndk(c)
         THEN IF InList(c.VndkVersion, PlatformVersionActiveCodenames)
              THEN "current" ELSE c.VndkVersion
         ELSE c.Sdk_version
    ELSE ""

\* CanBeOrLinkAgainstVersionVariants
CanBeOrLinkAgainstVersionVariants(c) ==
    c.Os = "android" /\ ~c.InRamdisk /\ ~c.InRecovery /\ ~c.InVendorRamdisk

\* staticUnwinder(actx)
staticUnwinder(c) == IF c.Arch = "arm" THEN <<"libunwind_llvm">> ELSE <<"libgcc_stripped">>

\* ctx.Target().Variations() and c.ImageVariation()
TargetVariations(c) ==
    <<[Mutator |-> "os", Variation |-> c.Os], [Mutator |-> "arch", Variation |-> c.Arch]>>

ImageVariation(c) ==
    [Mutator |-> "image",
     Variation |-> IF UseVndk(c) THEN "vendor." \o c.VndkVersion
                   ELSE IF c.InRecovery THEN "recovery" ELSE ""]

\* the Deps a module declares nothing in
EmptyDeps ==
    [SharedLibs |-> <<>>, LateSharedLibs |-> <<>>,
     StaticLibs |-> <<>>, LateStaticLibs |-> <<>>, WholeStaticLibs |-> <<>>,
     HeaderLibs |-> <<>>, RuntimeLibs |-> <<>>,
     ReexportSharedLibHeaders |-> <<>>, ReexportStaticLibHeaders |-> <<>>,
     ReexportHeaderLibHeaders |-> <<>>, ReexportGeneratedHeaders |-> <<>>,
     GeneratedHeaders |-> <<>>, ObjFiles |-> <<>>,
     CrtBegin |-> <<>>, CrtEnd |-> <<>>, StaticUnwinderIfLegacy |-> FALSE]

\* ctx.PropertyErrorf: an error against a property of the module
PropertyErrorf(errors, property, what, lib) ==
    Append(errors, [module |-> ModuleName, property |-> property,
                    text |-> what, name |-> lib])

\* faulty variant: only the first name of a reexport list is looked at
CheckReexport_FirstOnly(errors, reexport, list, property, what) ==
    IF reexport = <<>> \/ InList(Head(reexport), list) THEN errors
    ELSE PropertyErrorf(errors, property, what, Head(reexport))

\* lines 1602-1624: one error for each name of the reexport list that the
\* dependency list does not have
RECURSIVE CheckReexport(_, _, _, _, _)
CheckReexport(errors, reexport, list, property, what) ==
    IF reexport = <<>> THEN errors
    ELSE CheckReexport(IF ~InList(Head(reexport), list)
                       THEN PropertyErrorf(errors, property, what, Head(reexport))
                       ELSE errors,
                       Tail(reexport), list, property, what)

\* Module.deps from line 1594 on: p is what the module's compiler, linker,
\* stl, ... have collected
deps(p) ==
    LET d == [p EXCEPT
                 !.WholeStaticLibs = LastUniqueStrings(@),
                 !.StaticLibs = LastUniqueStrings(@),
                 !.LateStaticLibs = LastUniqueStrings(@),
                 !.SharedLibs = LastUniqueStrings(@),
                 !.LateSharedLibs = LastUniqueStrings(@),
                 !.HeaderLibs = LastUniqueStrings(@),
                 !.RuntimeLibs = LastUniqueStrings(@)]
        e1 == CheckReexport(<<>>, d.ReexportSharedLibHeaders, d.SharedLibs,
                  "export_shared_lib_headers", "Shared library not in shared_libs")
        e2 == CheckReexport(e1, d.ReexportStaticLibHeaders, d.StaticLibs,
                  "export_static_lib_headers", "Static library not in static_libs")
        e3 == CheckReexport(e2, d.ReexportHeaderLibHeaders, d.HeaderLibs,
                  "export_header_lib_headers", "Header library not in header_libs")
        e4 == CheckReexport(e3, d.ReexportGeneratedHeaders, d.GeneratedHeaders,
                  "export_generated_headers",
                  "Generated header module not in generated_headers")
    IN  [deps |-> d, errors |-> e4]

\* faulty variant: the snapshot name is made up without a look at the table
rewriteSnapshotLibs_NoLookup(c, lib, snapshotMap) ==
    IF c.VndkVersion # c.DeviceVndkVersion THEN lib
    ELSE SnapshotName(lib, "static", c.Arch)

\* lines 1785-1796
rewriteSnapshotLibs(c, lib, snapshotMap) ==
    IF c.VndkVersion # c.DeviceVndkVersion THEN lib
    ELSE LET r == SnapshotGet(snapshotMap, lib, c.Arch)
         IN  IF r.ok THEN r.snapshot ELSE lib

\* faulty variant: the snapshot is used whatever the module's VNDK version
rewriteVendorLibsIn_AnyVersion(c, lib, snapshotMap) ==
    IF isLlndkLibrary(lib) THEN lib \o llndkLibrarySuffix
    ELSE LET r == SnapshotGet(snapshotMap, lib, c.Arch)
         IN  IF r.ok THEN r.snapshot ELSE lib

\* lines 1723-1738; the table is vendorSnapshotSharedLibs
rewriteVendorLibsIn(c, lib, snapshotMap) ==
    IF isLlndkLibrary(lib) THEN lib \o llndkLibrarySuffix
    ELSE IF c.VndkVersion # c.DeviceVndkVersion THEN lib
    ELSE LET r == SnapshotGet(snapshotMap, lib, c.Arch)
         IN  IF r.ok THEN r.snapshot ELSE lib

rewriteVendorLibs(c, lib) == rewriteVendorLibsIn(c, lib, vendorSnapshotSharedLibs)

\* faulty variant: every module is redirected to the NDK stubs
RewriteEntry_WithoutUseSdk(c, entry) ==
    LET name == StubsLibNameAndVersion(entry).name
    IN  IF InList(name, ndkKnownLibs)
        THEN [variant |-> TRUE, lib |-> name \o ndkLibrarySuffix]
        ELSE IF UseVndk(c)
        THEN [variant |-> FALSE, lib |-> rewriteVendorLibs(c, entry)]
        ELSE IF (c.Platform \/ c.ProductSpecific) /\ InList(name, vendorPublicLibraries)
        THEN [variant |-> FALSE,
              lib |-> IF OtherModuleExists(name \o vendorPublicLibrarySuffix)
                      THEN name \o vendorPublicLibrarySuffix ELSE name]
        ELSE [variant |-> FALSE, lib |-> entry]

\* lines 1743-1765: what rewriteLibs does with one entry of its list
RewriteEntry(c, entry) ==
    LET name == StubsLibNameAndVersion(entry).name
    IN  IF UseSdk(c) /\ InList(name, ndkKnownLibs)
        THEN [variant |-> TRUE, lib |-> name \o ndkLibrarySuffix]
        ELSE IF UseVndk(c)
        THEN [variant |-> FALSE, lib |-> rewriteVendorLibs(c, entry)]
        ELSE IF (c.Platform \/ c.ProductSpecific) /\ InList(name, vendorPublicLibraries)
        THEN [variant |-> FALSE,
              lib |-> IF OtherModuleExists(name \o vendorPublicLibrarySuffix)
                      THEN name \o vendorPublicLibrarySuffix ELSE name]
        ELSE [variant |-> FALSE, lib |-> entry]

\* lines 1740-1767
rewriteLibs(c, list) ==
    LET r == [k \in 1..Len(list) |-> RewriteEntry(c, list[k])]
        libsOf(s) == [k \in 1..Len(s) |-> s[k].lib]
    IN  [nonvariantLibs |-> libsOf(SelectSeq(r, LAMBDA e : ~e.variant)),
         variantLibs |-> libsOf(SelectSeq(r, LAMBDA e : e.variant))]

\* dependencyTag
DependencyTag(name) == [name |-> name]

IsLibraryTag(tag) == "Kind" \in DOMAIN tag

\* a dependency as actx.AddVariationDependencies, AddFarVariationDependencies
\* or AddDependency is asked to add it
Dependency(name, tag, variations, far) ==
    [name |-> name, tag |-> tag, variations |-> variations, far |-> far]

LinkVariation(link) == <<[Mutator |-> "link", Variation |-> link]>>

\* addSharedLibDependenciesWithVersions (lines 1667-1683), far = false
addSharedLibDependenciesWithVersions(c, variations, depTag, name, version) ==
    IF version # <<>> /\ CanBeOrLinkAgainstVersionVariants(c)
    THEN Dependency(name, [depTag EXCEPT !.explicitlyVersioned = TRUE],
                    Append(variations, [Mutator |-> "version", Variation |-> version]),
                    FALSE)
    ELSE Dependency(name, depTag, variations, FALSE)

\* lines 1704-1775: the shared names are rewritten when the OS is Android
RewrittenDeps(c, d) ==
    IF c.Os # "android" THEN [deps |-> d, variantNdkLibs |-> <<>>, variantLateNdkLibs |-> <<>>]
    ELSE LET s == rewriteLibs(c, d.SharedLibs)
             l == rewriteLibs(c, d.LateSharedLibs)
             x == rewriteLibs(c, d.ReexportSharedLibHeaders)
         IN  [deps |-> [d EXCEPT
                  !.SharedLibs = s.nonvariantLibs,
                  !.LateSharedLibs = l.nonvariantLibs,
                  !.ReexportSharedLibHeaders = x.nonvariantLibs,
                  !.RuntimeLibs = IF UseVndk(c)
                                  THEN [k \in 1..Len(@) |-> rewriteVendorLibs(c, @[k])]
                                  ELSE @],
              variantNdkLibs |-> s.variantLibs,
              variantLateNdkLibs |-> l.variantLibs]

\* lines 1798-1813
HeaderDependencies(c, d) ==
    [k \in 1..Len(d.HeaderLibs) |->
        LET lib == d.HeaderLibs[k]
            depTag == [LibTag("header", "normal") EXCEPT
                          !.reexportFlags = InList(lib, d.ReexportHeaderLibHeaders)]
            name == rewriteSnapshotLibs(c, lib, vendorSnapshotHeaderLibs)
        IN  IF c.buildStubs
            THEN Dependency(name, depTag, Append(TargetVariations(c), ImageVariation(c)), TRUE)
            ELSE Dependency(name, depTag, <<>>, FALSE)]

SyspropImpl(lib) ==
    IF lib \in DOMAIN syspropImplLibraries THEN syspropImplLibraries[lib] ELSE lib

\* lines 1824-1869
StaticDependencies(c, d) ==
    LET whole == [k \in 1..Len(d.WholeStaticLibs) |->
            Dependency(rewriteSnapshotLibs(c, SyspropImpl(d.WholeStaticLibs[k]),
                                           vendorSnapshotStaticLibs),
                       [LibTag("static", "normal") EXCEPT
                           !.wholeStatic = TRUE, !.reexportFlags = TRUE],
                       LinkVariation("static"), FALSE)]
        static == [k \in 1..Len(d.StaticLibs) |->
            Dependency(rewriteSnapshotLibs(c, SyspropImpl(d.StaticLibs[k]),
                                           vendorSnapshotStaticLibs),
                       [LibTag("static", "normal") EXCEPT
                           !.reexportFlags =
                               InList(d.StaticLibs[k], d.ReexportStaticLibHeaders)],
                       LinkVariation("static"), FALSE)]
        unwinder == IF d.StaticUnwinderIfLegacy
            THEN <<Dependency(rewriteSnapshotLibs(c, staticUnwinder(c),
                                                  vendorSnapshotStaticLibs),
                              [LibTag("static", "normal") EXCEPT !.staticUnwinder = TRUE],
                              LinkVariation("static"), FALSE)>>
            ELSE <<>>
        late == [k \in 1..Len(d.LateStaticLibs) |->
            Dependency(rewriteSnapshotLibs(c, d.LateStaticLibs[k],
                                           vendorSnapshotStaticLibs),
                       LibTag("static", "late"), LinkVariation("static"), FALSE)]
    IN  whole \o static \o unwinder \o late

\* lines 1871-1890
SharedDependencies(c, d) ==
    [k \in 1..Len(d.SharedLibs) |->
        LET lib == d.SharedLibs[k]
            depTag == [LibTag("shared", "normal") EXCEPT
                          !.reexportFlags = InList(lib, d.ReexportSharedLibHeaders)]
            nv == StubsLibNameAndVersion(SyspropImpl(lib))
        IN  addSharedLibDependenciesWithVersions(c, LinkVariation("shared"), depTag,
                                                 nv.name, nv.version)]

\* line 1872: shared lib names without the #version suffix
sharedLibNames(d) ==
    [k \in 1..Len(d.SharedLibs) |-> StubsLibNameAndVersion(SyspropImpl(d.SharedLibs[k])).name]

\* lines 1892-1905
LateSharedDependencies(c, d) ==
    LET kept == SelectSeq(d.LateSharedLibs, LAMBDA lib : ~InList(lib, sharedLibNames(d)))
    IN  [k \in 1..Len(kept) |->
            addSharedLibDependenciesWithVersions(c, LinkVariation("shared"),
                LibTag("shared", "late"), kept[k], <<>>)]

\* GetCrtVariations (lines 1651-1665)
GetCrtVariations(c) ==
    IF c.Os # "android" THEN <<>>
    ELSE IF UseSdk(c)
    THEN <<[Mutator |-> "sdk", Variation |-> "sdk"],
           [Mutator |-> "version", Variation |-> c.Sdk_version]>>
    ELSE <<[Mutator |-> "sdk", Variation |-> ""]>>

\* lines 1911-1936: runtime libraries, generated headers and objects
OtherDependencies(c, d) ==
    LET runtime == [k \in 1..Len(d.RuntimeLibs) |->
            Dependency(d.RuntimeLibs[k], DependencyTag("runtime lib"),
                       LinkVariation("shared"), FALSE)]
        gen == [k \in 1..Len(d.GeneratedHeaders) |->
            Dependency(d.GeneratedHeaders[k],
                IF InList(d.GeneratedHeaders[k], d.ReexportGeneratedHeaders)
                THEN DependencyTag("gen header export") ELSE DependencyTag("gen header"),
                <<>>, FALSE)]
        obj == [k \in 1..Len(d.ObjFiles) |->
            Dependency(d.ObjFiles[k], DependencyTag("obj"), GetCrtVariations(c), FALSE)]
        begin == IF d.CrtBegin # <<>>
            THEN <<Dependency(rewriteSnapshotLibs(c, d.CrtBegin, vendorSnapshotObjects),
                              DependencyTag("crtbegin"), GetCrtVariations(c), FALSE)>>
            ELSE <<>>
        end == IF d.CrtEnd # <<>>
            THEN <<Dependency(rewriteSnapshotLibs(c, d.CrtEnd, vendorSnapshotObjects),
                              DependencyTag("crtend"), GetCrtVariations(c), FALSE)>>
            ELSE <<>>
    IN  runtime \o gen \o obj \o begin \o end

\* lines 1944-1956: the dependencies on the NDK stubs
NdkStubDependencies(c, libs, order) ==
    LET version == sdkVersion(c)
    IN  [k \in 1..Len(libs) |->
            Dependency(libs[k],
                [LibTag("shared", order) EXCEPT !.ndk = TRUE, !.makeSuffix = "." \o version],
                <<[Mutator |-> "version", Variation |-> version],
                  [Mutator |-> "link", Variation |-> "shared"]>>, FALSE)]

NotMutated == [dependencies |-> <<>>, errors |-> <<>>]

\* Module.DepsMutator (lines 1685-1966) of module c that declares p.  Data
\* libraries, generated sources, the linker flags file, the dynamic linker
\* and the vndk-ext dependency are left out: the modules here declare none.
DepsMutatorOf(c, p) ==
    IF ~c.Enabled THEN NotMutated
    ELSE
    LET r == deps(p)
        w == RewrittenDeps(c, r.deps)
        d == w.deps
    IN  IF c.buildStubs
        THEN [dependencies |-> HeaderDependencies(c, d), errors |-> r.errors]
        ELSE [dependencies |->
                  HeaderDependencies(c, d) \o StaticDependencies(c, d)
                  \o SharedDependencies(c, d) \o LateSharedDependencies(c, d)
                  \o OtherDependencies(c, d)
                  \o NdkStubDependencies(c, w.variantNdkLibs, "normal")
                  \o NdkStubDependencies(c, w.variantLateNdkLibs, "late"),
              errors |-> r.errors]

\* the variants and configurations of the module.  DeviceVndkVersion is
\* DeviceConfig().VndkVersion(): "current" or the version of the snapshot
\* the vendor modules are built against.
ModuleVariant(os, arch, vndk, sdk, device) ==
    [Enabled |-> TRUE, Os |-> os, Arch |-> arch, VndkVersion |-> vndk,
     Sdk_version |-> sdk, DeviceVndkVersion |-> device,
     InRamdisk |-> FALSE, InVendorRamdisk |-> FALSE, InRecovery |-> FALSE,
     Platform |-> TRUE, ProductSpecific |-> FALSE, buildStubs |-> FALSE]

Modules ==
    {ModuleVariant("linux_glibc", "x86_64", "", "", "current")}
    \cup {ModuleVariant("android", "arm64", "", sdk, device) :
            sdk \in {"", "29"}, device \in {"current", "29"}}
    \cup {[ModuleVariant("android", arch, vndk, sdk, "29") EXCEPT !.Platform = p] :
            arch \in {"arm64", "arm"}, vndk \in {"29", "S"}, sdk \in {"", "29"},
            p \in BOOLEAN}
    \cup {[ModuleVariant("android", "arm64", "", "29", "current") EXCEPT !.InRecovery = TRUE],
          [ModuleVariant("android", "arm64", "", "", "current") EXCEPT !.buildStubs = TRUE],
          [ModuleVariant("android", "arm64", "", "29", "current") EXCEPT !.buildStubs = TRUE],
          [ModuleVariant("android", "arm64", "", "", "current") EXCEPT !.Enabled = FALSE],
          [ModuleVariant("android", "arm64", "", "", "current") EXCEPT
              !.Platform = FALSE, !.ProductSpecific = TRUE],
          [ModuleVariant("android", "arm64", "", "", "current") EXCEPT !.Platform = FALSE]}

\* what a module may declare: a name for one of its lists
Declarations ==
    {[field |-> "SharedLibs", name |-> n] :
        n \in {<<"libc">>, <<"libc", "#", "29">>, <<"libfoo">>, <<"libvp">>, <<"libvphidden">>,
               <<"libvp", "#", "29">>, <<"libfoo", "#">>, <<"libfoo", "#", "1", "#", "30">>}}
    \cup {[field |-> "LateSharedLibs", name |-> n] :
        n \in {<<"libc">>, <<"libc", "#", "29">>, <<"libfoo">>}}
    \cup {[field |-> "StaticLibs", name |-> n] : n \in {<<"liba">>, <<"sysprop">>}}
    \cup {[field |-> f, name |-> <<"liba">>] : f \in {"WholeStaticLibs", "LateStaticLibs"}}
    \cup {[field |-> "HeaderLibs", name |-> <<"libhdr">>]}
    \cup {[field |-> "RuntimeLibs", name |-> n] : n \in {<<"libc">>, <<"libfoo">>}}
    \cup {[field |-> "ObjFiles", name |-> <<"crtobj">>],
          [field |-> "GeneratedHeaders", name |-> <<"genhdr">>]}
    \cup {[field |-> "ReexportSharedLibHeaders", name |-> n] : n \in {<<"libc">>, <<"libfoo">>}}
    \cup {[field |-> "ReexportStaticLibHeaders", name |-> <<"liba">>],
          [field |-> "ReexportHeaderLibHeaders", name |-> <<"libhdr">>],
          [field |-> "ReexportGeneratedHeaders", name |-> <<"genhdr">>]}

\* the crt objects and the flag of the static unwinder are single values
SingleDeclarations ==
    {[field |-> "CrtBegin", value |-> <<"crtbegin_so">>],
     [field |-> "CrtEnd", value |-> <<"crtend_so">>],
     [field |-> "StaticUnwinderIfLegacy", value |-> TRUE]}

MutatorIdle ==
    /\ module = CHOOSE c \in Modules : TRUE
    /\ props = EmptyDeps
    /\ nDeclared = 0
    /\ mutated = NotMutated
    /\ mutatorPc = "idle"

MutatorInit ==
    /\ module \in Modules
    /\ props = EmptyDeps
    /\ nDeclared = 0
    /\ mutated = NotMutated
    /\ mutatorPc = "declare"

\* the module's compiler, linker, stl, ... add a name to deps
\* (lines 1557-1592)
Declare ==
    /\ mutatorPc = "declare"
    /\ nDeclared < MaxDeclared
    /\ \/ \E decl \in Declarations :
             props' = [props EXCEPT ![decl.field] = Append(@, decl.name)]
       \/ \E decl \in SingleDeclarations :
             /\ props[decl.field] # decl.value
             /\ props' = [props EXCEPT ![decl.field] = decl.value]
    /\ nDeclared' = nDeclared + 1
    /\ UNCHANGED <<module, mutated, mutatorPc>>
    /\ UNCHANGED <<chooseVars, orderVars, pathsVars, rewriteVars, linkVars, walkVars, pipeVars, resolveVars>>

\* the deps mutator runs on the module
DepsMutator ==
    /\ mutatorPc = "declare"
    /\ mutated' = DepsMutatorOf(module, props)
    /\ mutatorPc' = "done"
    /\ UNCHANGED <<module, props, nDeclared>>
    /\ UNCHANGED <<chooseVars, orderVars, pathsVars, rewriteVars, linkVars, walkVars, pipeVars, resolveVars>>

(***************************************************************************)
(* rewriteVendorLibs and rewriteSnapshotLibs called on their own result    *)
(***************************************************************************)
\* the names handed to the functions
RewriteNames ==
    {<<"libc">>, <<"libc">> \o llndkLibrarySuffix, <<"libfoo">>,
     SnapshotName(<<"libfoo">>, "shared", "arm64"), <<"libbar">>}

\* the snapshot tables: any of these names may be the base name of a
\* snapshot module registered for arm64
RewriteTables ==
    {SnapshotMapOf("shared", names) :
        names \in SUBSET {<<"libfoo">>, SnapshotName(<<"libfoo">>, "shared", "arm64"),
                          <<"libc">> \o llndkLibrarySuffix}}

\* rewriteSnapshotLibs is called for every enabled module, rewriteVendorLibs
\* for those with useVndk() (lines 1748 and 1771)
RewriteCalls ==
    {[fn |-> "rewriteSnapshotLibs", c |-> c, snapshotMap |-> t] :
        c \in {m \in Modules : m.Enabled}, t \in RewriteTables}
    \cup
    {[fn |-> "rewriteVendorLibs", c |-> c, snapshotMap |-> t] :
        c \in {m \in Modules : m.Enabled /\ m.Os = "android" /\ UseVndk(m)},
        t \in RewriteTables}

RewriteIdle ==
    /\ rwCall = CHOOSE r \in RewriteCalls : TRUE
    /\ rwLib = <<>>
    /\ rwOut = <<>>
    /\ rwPc = "idle"

RewriteInit ==
    /\ rwCall \in RewriteCalls
    /\ rwLib \in RewriteNames
    /\ rwOut = <<>>
    /\ rwPc = "call"

\* the function is called, on the name or on what the call before returned
Rewrite ==
    /\ rwPc = "call"
    /\ LET lib == IF rwOut = <<>> THEN rwLib ELSE rwOut[Len(rwOut)]
           out == IF rwCall.fn = "rewriteVendorLibs"
                  THEN rewriteVendorLibsIn(rwCall.c, lib, rwCall.snapshotMap)
                  ELSE rewriteSnapshotLibs(rwCall.c, lib, rwCall.snapshotMap)
       IN  rwOut' = Append(rwOut, out)
    /\ rwPc' = IF Len(rwOut) = 1 THEN "done" ELSE "call"
    /\ UNCHANGED <<rwCall, rwLib>>
    /\ UNCHANGED <<chooseVars, orderVars, pathsVars, mutatorVars, linkVars, walkVars, pipeVars, resolveVars>>

(***************************************************************************)
(* checkLinkType.  An sdk_version is the sequence of its pieces, a digit   *)
(* being a piece of its own: "10" is <<"1", "0">>, "" is <<>>.             *)
(***************************************************************************)
DigitValue ==
    "0" :> 0 @@ "1" :> 1 @@ "2" :> 2 @@ "3" :> 3 @@ "4" :> 4 @@
    "5" :> 5 @@ "6" :> 6 @@ "7" :> 7 @@ "8" :> 8 @@ "9" :> 9

RECURSIVE DecimalValue(_, _)
DecimalValue(s, acc) ==
    IF s = <<>> THEN acc
    ELSE DecimalValue(Tail(s), 10 * acc + DigitValue[Head(s)])

\* strconv.Atoi of an unsigned decimal: (0, err) when s is not a number
Atoi(s) ==
    IF s # <<>> /\ \A k \in 1..Len(s) : s[k] \in DOMAIN DigitValue
    THEN [n |-> DecimalValue(s, 0), err |-> FALSE]
    ELSE [n |-> 0, err |-> TRUE]

\* getNdkStlFamily: the family of a module's selected STL
getNdkStlFamily(m) ==
    CASE m.SelectedStl \in {"ndk_libc++_shared", "ndk_libc++_static"} -> "libc++"
      [] m.SelectedStl = "ndk_libstlport_shared" -> "stlport"
      [] m.SelectedStl = "ndk_system" -> "system"
      [] m.SelectedStl = "" -> "none"

\* the STL a module built against the SDK may have selected
SelectedStls ==
    {"", "ndk_system", "ndk_libc++_shared", "ndk_libc++_static", "ndk_libstlport_shared"}

\* the sdk_version values of the modules: none, "current", 9, 10 and one
\* that is neither a number nor "current"
SdkVersions == {<<>>, <<"current">>, <<"9">>, <<"1", "0">>, <<"x">>}

vndkExtDepTag == DependencyTag("vndk extends")

\* the tags of the dependencies that are checked
LinkTags == {LibTag("shared", "normal"), vndkExtDepTag, DependencyTag("runtime lib")}

\* the module the mutator runs on.  hasVndkdep: c.vndkdep != nil
LinkFromModule(sdk, stl) ==
    [Name |-> <<"consumer">>, Os |-> "android", UseVndk |-> FALSE, hasVndkdep |-> TRUE,
     SdkVersion |-> sdk, InRamdisk |-> FALSE, InVendorRamdisk |-> FALSE,
     InRecovery |-> FALSE, SelectedStl |-> stl]

LinkFroms ==
    {LinkFromModule(sdk, stl) : sdk \in SdkVersions, stl \in SelectedStls}
    \cup
    {[LinkFromModule(<<"9">>, "ndk_libc++_shared") EXCEPT !.Os = "linux_glibc"],
     [LinkFromModule(<<"9">>, "ndk_libc++_shared") EXCEPT !.UseVndk = TRUE],
     [LinkFromModule(<<"9">>, "ndk_libc++_shared") EXCEPT
         !.UseVndk = TRUE, !.hasVndkdep = FALSE],
     [LinkFromModule(<<"9">>, "ndk_libc++_shared") EXCEPT !.InRamdisk = TRUE],
     [LinkFromModule(<<"9">>, "ndk_libc++_shared") EXCEPT !.InVendorRamdisk = TRUE],
     [LinkFromModule(<<"9">>, "ndk_libc++_shared") EXCEPT !.InRecovery = TRUE],
     [LinkFromModule(<<"9">>, "ndk_libc++_shared") EXCEPT
         !.Name = <<"libclang_rt.", "asan">>]}

\* the module depended on.  isCcModule: to.(*Module) succeeds;
\* VendorLinkable: what vndkCheckLinkType accepts
LinkToModule(sdk, stl) ==
    [Name |-> <<"libto">>, isCcModule |-> TRUE, ToolchainLibrary |-> FALSE,
     NdkPrebuiltStl |-> FALSE, StubDecorator |-> FALSE, VendorLinkable |-> TRUE,
     SdkVersion |-> sdk, SelectedStl |-> stl]

LinkTos ==
    {LinkToModule(sdk, stl) : sdk \in SdkVersions, stl \in SelectedStls}
    \cup
    {[LinkToModule(<<"1", "0">>, "ndk_libstlport_shared") EXCEPT !.ToolchainLibrary = TRUE],
     [LinkToModule(<<>>, "ndk_libstlport_shared") EXCEPT !.NdkPrebuiltStl = TRUE],
     [LinkToModule(<<"1", "0">>, "ndk_libstlport_shared") EXCEPT !.StubDecorator = TRUE],
     [LinkToModule(<<"1", "0">>, "ndk_libstlport_shared") EXCEPT !.isCcModule = FALSE],
     [LinkToModule(<<"1", "0">>, "ndk_libstlport_shared") EXCEPT !.VendorLinkable = FALSE],
     [LinkToModule(<<>>, "") EXCEPT !.Name = <<"libc++">>],
     [LinkToModule(<<"current">>, "") EXCEPT !.Name = <<"libc++">>]}

\* ctx.ModuleErrorf and ctx.PropertyErrorf of the mutator's module
LinkError(from, kind, dep, version) ==
    [module |-> from.Name, text |-> kind, dep |-> dep, version |-> version]

\* vndkdep.vndkCheckLinkType
vndkCheckLinkType(from, to) ==
    IF to.VendorLinkable THEN <<>>
    ELSE <<LinkError(from, "vendor module links a module that is not available to it",
                     to.Name, <<>>)>>

\* faulty variant: a producer of the consumer's own API level is rejected
ApiLevelErrors_NotOlder(from, to) ==
    IF from.SdkVersion = <<"current">> THEN <<>>
    ELSE IF to.SdkVersion = <<"current">>
    THEN <<LinkError(from, "links built against newer API version", to.Name,
                     <<"current">>)>>
    ELSE LET fromApi == Atoi(from.SdkVersion)
             toApi == Atoi(to.SdkVersion)
         IN  (IF fromApi.err
              THEN <<LinkError(from, "Invalid sdk_version value", <<>>, from.SdkVersion)>>
              ELSE <<>>)
             \o (IF toApi.err
                 THEN <<LinkError(from, "Invalid sdk_version value", <<>>, to.SdkVersion)>>
                 ELSE <<>>)
             \o (IF toApi.n >= fromApi.n
                 THEN <<LinkError(from, "links built against newer API version",
                                  to.Name, to.SdkVersion)>>
                 ELSE <<>>)

\* lines 2054-2084: the API levels of two modules built against the SDK
ApiLevelErrors(from, to) ==
    IF from.SdkVersion = <<"current">> THEN <<>>
    ELSE IF to.SdkVersion = <<"current">>
    THEN <<LinkError(from, "links built against newer API version", to.Name,
                     <<"current">>)>>
    ELSE LET fromApi == Atoi(from.SdkVersion)
             toApi == Atoi(to.SdkVersion)
         IN  (IF fromApi.err
              THEN <<LinkError(from, "Invalid sdk_version value", <<>>, from.SdkVersion)>>
              ELSE <<>>)
             \o (IF toApi.err
                 THEN <<LinkError(from, "Invalid sdk_version value", <<>>, to.SdkVersion)>>
                 ELSE <<>>)
             \o (IF toApi.n > fromApi.n
                 THEN <<LinkError(from, "links built against newer API version",
                                  to.Name, to.SdkVersion)>>
                 ELSE <<>>)

\* faulty variant: the system runtime is compared like any other
StlErrors_SystemCompared(from, to) ==
    IF from.SelectedStl = "" \/ to.SelectedStl = "" THEN <<>>
    ELSE IF getNdkStlFamily(from) # getNdkStlFamily(to)
    THEN <<LinkError(from, "uses incompatible STL", to.Name, <<>>)>>
    ELSE <<>>

\* lines 2086-2099: the STL choices of the two modules
StlErrors(from, to) ==
    IF from.SelectedStl = "" \/ to.SelectedStl = "" THEN <<>>
    ELSE IF from.SelectedStl = "ndk_system" \/ to.SelectedStl = "ndk_system" THEN <<>>
    ELSE IF getNdkStlFamily(from) # getNdkStlFamily(to)
    THEN <<LinkError(from, "uses incompatible STL", to.Name, <<>>)>>
    ELSE <<>>

\* checkLinkType (lines 2016-2100): the errors it reports
checkLinkType(from, to, tag) ==
    IF ~IsLibraryTag(tag) /\ tag # vndkExtDepTag THEN <<>>
    ELSE IF from.Os # "android" THEN <<>>
    ELSE IF from.UseVndk
    THEN IF to.isCcModule
         THEN IF from.hasVndkdep THEN vndkCheckLinkType(from, to) ELSE <<>>
         ELSE <<LinkError(from, "Attempting to link VNDK cc.Module with unsupported module type",
                          <<>>, <<>>)>>
    ELSE IF from.SdkVersion = <<>> THEN <<>>
    ELSE IF from.InRamdisk \/ from.InVendorRamdisk \/ from.InRecovery THEN <<>>
    ELSE IF to.isCcModule /\ (to.ToolchainLibrary \/ to.NdkPrebuiltStl \/ to.StubDecorator)
    THEN <<>>
    ELSE IF from.Name[1] = "libclang_rt." /\ to.Name = <<"libc++">> THEN <<>>
    ELSE IF to.SdkVersion = <<>>
    THEN <<LinkError(from, "depends on non-NDK-built library", to.Name, <<>>)>>
    ELSE ApiLevelErrors(from, to) \o StlErrors(from, to)

LinkIdle ==
    /\ linkFrom = CHOOSE m \in LinkFroms : TRUE
    /\ linkTo = CHOOSE m \in LinkTos : TRUE
    /\ linkTag = vndkExtDepTag
    /\ linkErrors = <<>>
    /\ linkPc = "idle"

LinkInit ==
    /\ linkFrom \in LinkFroms
    /\ linkTo \in LinkTos
    /\ linkTag \in LinkTags
    /\ linkErrors = <<>>
    /\ linkPc = "check"

\* checkLinkTypeMutator (lines 2102-2112): the callback for one direct
\* dependency
CheckLinkType ==
    /\ linkPc = "check"
    /\ linkErrors' = checkLinkType(linkFrom, linkTo, linkTag)
    /\ linkPc' = "done"
    /\ UNCHANGED <<linkFrom, linkTo, linkTag>>
    /\ UNCHANGED <<chooseVars, orderVars, pathsVars, mutatorVars, rewriteVars, walkVars, pipeVars, resolveVars>>

(***************************************************************************)
(* checkDoubleLoadableLibraries.  The modules of the graph are numbered;   *)
(* the mutator's module is module 1 and a module depends on modules with a *)
(* larger number only.                                                     *)
(***************************************************************************)
MaxWalkModules == 3

WalkModuleIds == 1..MaxWalkModules

\* isCcModule: child.(*Module) succeeds; sharedLibrary: the linker is a
\* libraryDecorator and shared()
WalkModule(cc, shared, vendorVariant, vndkSp, llndk, doubleLoadable) ==
    [isCcModule |-> cc, sharedLibrary |-> shared, HasVendorVariant |-> vendorVariant,
     isVndkSp |-> vndkSp, isLlndk |-> llndk, Double_loadable |-> doubleLoadable]

VendorAvailableLibrary == WalkModule(TRUE, TRUE, TRUE, FALSE, FALSE, FALSE)

\* the kinds of module a graph is made of
WalkModuleKinds ==
    {VendorAvailableLibrary,
     [VendorAvailableLibrary EXCEPT !.HasVendorVariant = FALSE],
     [VendorAvailableLibrary EXCEPT !.isVndkSp = TRUE],
     [VendorAvailableLibrary EXCEPT !.isLlndk = TRUE],
     [VendorAvailableLibrary EXCEPT !.Double_loadable = TRUE],
     [VendorAvailableLibrary EXCEPT !.sharedLibrary = FALSE],
     [VendorAvailableLibrary EXCEPT !.sharedLibrary = FALSE, !.Double_loadable = TRUE],
     [VendorAvailableLibrary EXCEPT !.isCcModule = FALSE, !.sharedLibrary = FALSE]}

\* the ascending sequence of the elements of a set of numbers
RECURSIVE Ascending(_)
Ascending(S) ==
    IF S = {} THEN <<>>
    ELSE LET least == CHOOSE x \in S : \A y \in S : x <= y
         IN  <<least>> \o Ascending(S \ {least})

\* the graphs: every module has some of the later modules as dependencies
WalkGraphs ==
    {[m \in WalkModuleIds |-> Ascending({d \in WalkModuleIds : <<m, d>> \in edges})] :
        edges \in SUBSET {e \in WalkModuleIds \X WalkModuleIds : e[2] > e[1]}}

\* ctx.ModuleErrorf of line 2143: stringPath is ctx.GetWalkPath()
DoubleLoadError(to, walkPath) ==
    [module |-> walkPath[1], text |-> "links a library which is not double_loadable",
     dep |-> to, path |-> walkPath]

\* faulty variant: a library without a vendor variant ends the walk
check_StopAtNoVendorVariant(modules, child, walkPath) ==
    LET to == modules[child]
    IN  IF ~to.isCcModule THEN [recurse |-> FALSE, errors |-> <<>>]
        ELSE IF ~to.sharedLibrary THEN [recurse |-> FALSE, errors |-> <<>>]
        ELSE IF ~to.HasVendorVariant THEN [recurse |-> FALSE, errors |-> <<>>]
        ELSE IF to.isVndkSp \/ to.isLlndk \/ to.Double_loadable
        THEN [recurse |-> FALSE, errors |-> <<>>]
        ELSE [recurse |-> FALSE, errors |-> <<DoubleLoadError(child, walkPath)>>]

\* the closure check (lines 2119-2147): whether the walk goes on below
\* child and the errors reported; walkPath ends with child
check(modules, child, walkPath) ==
    LET to == modules[child]
    IN  IF ~to.isCcModule THEN [recurse |-> FALSE, errors |-> <<>>]
        ELSE IF ~to.sharedLibrary THEN [recurse |-> FALSE, errors |-> <<>>]
        ELSE IF ~to.HasVendorVariant THEN [recurse |-> TRUE, errors |-> <<>>]
        ELSE IF to.isVndkSp \/ to.isLlndk \/ to.Double_loadable
        THEN [recurse |-> FALSE, errors |-> <<>>]
        ELSE [recurse |-> FALSE, errors |-> <<DoubleLoadError(child, walkPath)>>]

\* ctx.WalkDeps: the dependencies of parent from the k-th on.  Every
\* dependency is visited, also a module that was visited before, but the
\* walk descends into a module once only.  st: the modules descended into
\* and the errors so far.
RECURSIVE WalkDeps(_, _, _, _, _, _)
WalkDeps(modules, directDeps, parent, k, walkPath, st) ==
    IF k > Len(directDeps[parent]) THEN st
    ELSE LET child == directDeps[parent][k]
             childPath == Append(walkPath, child)
             r == check(modules, child, childPath)
             visited == [st EXCEPT !.errors = @ \o r.errors]
             below ==
                IF r.recurse /\ child \notin st.visited
                THEN LET w == WalkDeps(modules, directDeps, child, 1, childPath, visited)
                     IN  [w EXCEPT !.visited = @ \cup {child}]
                ELSE visited
         IN  WalkDeps(modules, directDeps, parent, k + 1, walkPath, below)

\* checkDoubleLoadableLibraries (lines 2118-2155) on module root
checkDoubleLoadableLibraries(modules, directDeps, root) ==
    IF /\ modules[root].isCcModule
       /\ modules[root].sharedLibrary
       /\ modules[root].isLlndk \/ modules[root].Double_loadable
    THEN WalkDeps(modules, directDeps, root, 1, <<root>>, [visited |-> {}, errors |-> <<>>]).errors
    ELSE <<>>

WalkIdle ==
    /\ walkModules = [m \in WalkModuleIds |-> VendorAvailableLibrary]
    /\ walkDeps = [m \in WalkModuleIds |-> <<>>]
    /\ walkErrors = <<>>
    /\ walkPc = "idle"

WalkInit ==
    /\ walkModules \in [WalkModuleIds -> WalkModuleKinds]
    /\ walkDeps \in WalkGraphs
    /\ walkErrors = <<>>
    /\ walkPc = "check"

\* the double_loadable mutator (line 88) on module 1
CheckDoubleLoadable ==
    /\ walkPc = "check"
    /\ walkErrors' = checkDoubleLoadableLibraries(walkModules, walkDeps, 1)
    /\ walkPc' = "done"
    /\ UNCHANGED <<walkModules, walkDeps>>
    /\ UNCHANGED <<chooseVars, orderVars, pathsVars, mutatorVars, rewriteVars, linkVars, pipeVars, resolveVars>>

(***************************************************************************)
(* The mutators of RegisterCCBuildComponents and the order in which they   *)
(* run on the modules.                                                     *)
(***************************************************************************)
MaxPipeModules == 2

PipeModules == 1..MaxPipeModules

\* ctx.BottomUp(name, ...) and ctx.TopDown(name, ...), .Parallel() or not
Mutator(name, direction, parallel) ==
    [name |-> name, direction |-> direction, parallel |-> parallel]

\* faulty variant: the version mutator is registered before the link mutator
PreDepsMutators_VersionFirst ==
    <<Mutator("sdk", "BottomUp", TRUE),
      Mutator("vndk", "BottomUp", TRUE),
      Mutator("version", "BottomUp", TRUE),
      Mutator("test_per_src", "BottomUp", TRUE),
      Mutator("version_selector", "BottomUp", TRUE),
      Mutator("link", "BottomUp", TRUE),
      Mutator("begin", "BottomUp", TRUE),
      Mutator("sysprop_cc", "BottomUp", TRUE),
      Mutator("vendor_snapshot", "BottomUp", TRUE),
      Mutator("vendor_snapshot_source", "BottomUp", TRUE)>>

\* lines 45-56
PreDepsMutators ==
    <<Mutator("sdk", "BottomUp", TRUE),
      Mutator("vndk", "BottomUp", TRUE),
      Mutator("link", "BottomUp", TRUE),
      Mutator("test_per_src", "BottomUp", TRUE),
      Mutator("version_selector", "BottomUp", TRUE),
      Mutator("version", "BottomUp", TRUE),
      Mutator("begin", "BottomUp", TRUE),
      Mutator("sysprop_cc", "BottomUp", TRUE),
      Mutator("vendor_snapshot", "BottomUp", TRUE),
      Mutator("vendor_snapshot_source", "BottomUp", TRUE)>>

\* the mutator that calls DepsMutator of every module; it runs between the
\* PreDepsMutators and the PostDepsMutators
DepsMutators == <<Mutator("deps", "BottomUp", TRUE)>>

\* lines 58-88
PostDepsMutators ==
    <<Mutator("asan_deps", "TopDown", FALSE),
      Mutator("asan", "BottomUp", TRUE),
      Mutator("hwasan_deps", "TopDown", FALSE),
      Mutator("hwasan", "BottomUp", TRUE),
      Mutator("fuzzer_deps", "TopDown", FALSE),
      Mutator("fuzzer", "BottomUp", TRUE),
      Mutator("cfi_deps", "TopDown", FALSE),
      Mutator("cfi", "BottomUp", TRUE),
      Mutator("scs_deps", "TopDown", FALSE),
      Mutator("scs", "BottomUp", TRUE),
      Mutator("tsan_deps", "TopDown", FALSE),
      Mutator("tsan", "BottomUp", TRUE),
      Mutator("sanitize_runtime_deps", "TopDown", TRUE),
      Mutator("sanitize_runtime", "BottomUp", TRUE),
      Mutator("coverage", "BottomUp", TRUE),
      Mutator("vndk_deps", "TopDown", FALSE),
      Mutator("lto_deps", "TopDown", FALSE),
      Mutator("lto", "BottomUp", TRUE),
      Mutator("check_linktype", "BottomUp", TRUE),
      Mutator("double_loadable", "TopDown", TRUE)>>

\* the mutators in the order in which they run
Mutators == PreDepsMutators \o DepsMutators \o PostDepsMutators

\* the place of a mutator in that order
MutatorIndex(name) == CHOOSE k \in 1..Len(Mutators) : Mutators[k].name = name

\* the dependency graphs of the pipeline's modules: a module depends on
\* modules with a larger number
PipeGraphs ==
    {g \in [PipeModules -> SUBSET PipeModules] :
        \A m \in PipeModules : \A d \in g[m] : d > m}

\* a mutator has run on every module
PassComplete(finished, pass) == \A m \in PipeModules : finished[m] >= pass

\* a bottom-up mutator visits a module after its dependencies, a top-down
\* mutator after the modules that depend on it
VisitedBefore(m) ==
    IF Mutators[pipePass].direction = "BottomUp"
    THEN pipeDeps[m]
    ELSE {p \in PipeModules : m \in pipeDeps[p]}

PipeRunning == {m \in PipeModules : pipeStarted[m] > pipeFinished[m]}

PipeIdle ==
    /\ pipeDeps = [m \in PipeModules |-> {}]
    /\ pipePass = 0
    /\ pipeStarted = [m \in PipeModules |-> 0]
    /\ pipeFinished = [m \in PipeModules |-> 0]

PipeInit ==
    /\ pipeDeps \in PipeGraphs
    /\ pipePass = 1
    /\ pipeStarted = [m \in PipeModules |-> 0]
    /\ pipeFinished = [m \in PipeModules |-> 0]

\* the running mutator starts on a module
StartMutator ==
    /\ pipePass \in 1..Len(Mutators)
    /\ \E m \in PipeModules :
          /\ pipeStarted[m] < pipePass
          /\ \A o \in VisitedBefore(m) : pipeFinished[o] >= pipePass
          /\ Mutators[pipePass].parallel \/ PipeRunning = {}
          /\ pipeStarted' = [pipeStarted EXCEPT ![m] = pipePass]
    /\ UNCHANGED <<pipeDeps, pipePass, pipeFinished>>
    /\ UNCHANGED <<chooseVars, orderVars, pathsVars, mutatorVars, rewriteVars, linkVars, walkVars, resolveVars>>

\* the running mutator returns from a module
FinishMutator ==
    /\ pipePass \in 1..Len(Mutators)
    /\ \E m \in PipeRunning :
          pipeFinished' = [pipeFinished EXCEPT ![m] = pipeStarted[m]]
    /\ UNCHANGED <<pipeDeps, pipePass, pipeStarted>>
    /\ UNCHANGED <<chooseVars, orderVars, pathsVars, mutatorVars, rewriteVars, linkVars, walkVars, resolveVars>>

\* the next mutator begins when the running one has run on every module
NextMutator ==
    /\ pipePass \in 1..Len(Mutators)
    /\ PassComplete(pipeFinished, pipePass)
    /\ pipePass' = pipePass + 1
    /\ UNCHANGED <<pipeDeps, pipeStarted, pipeFinished>>
    /\ UNCHANGED <<chooseVars, orderVars, pathsVars, mutatorVars, rewriteVars, linkVars, walkVars, resolveVars>>

(***************************************************************************)
(* Specifications                                                          *)
(***************************************************************************)
(***************************************************************************)
(* Path/Flag Resolution of a module graph: GenerateAndroidBuildActions of  *)
(* every module, scheduled bottom-up.  The modules are static libraries;   *)
(* an edge leads from a module to one further down in ResolveModules.      *)
(***************************************************************************)
ResolveIndex(name) == CHOOSE k \in 1..Len(ResolveModules) : ResolveModules[k] = name

ResolvePairs ==
    {p \in (1..Len(ResolveModules)) \X (1..Len(ResolveModules)) : p[1] < p[2]}

\* no edge
NoTag == LibTag("none", "normal")

\* the tags an edge of the graph may carry
ResolveTags ==
    {NoTag,
     LibTag("static", "normal"),
     [LibTag("static", "normal") EXCEPT !.reexportFlags = TRUE]}

\* the stages of GenerateAndroidBuildActions, in order
Stages == <<"depsToPaths", "flags", "compile", "link", "install">>

\* the stage whose callee (compiler, linker, installer) reports an error
\* against the module; "none" if none does.  The errors of depsToPaths are
\* those the model of depsToPaths reports.
StageFailures == {"none", "flags", "compile", "link", "install"}

\* at most MaxFailing modules of the graph have a stage that fails
MaxFailing == 1

ResolveConfigs ==
    {cfg \in [edges : [ResolvePairs -> ResolveTags],
              fails : [ResolveNames -> StageFailures],
              AllowMissingDependencies : BOOLEAN] :
        Cardinality({m \in ResolveNames : cfg.fails[m] # "none"}) <= MaxFailing}

\* the variant of every module of the graph: a platform module of the core
\* image
ResolveConsumer(cfg) ==
    [UseVndk |-> FALSE, Bootstrap |-> FALSE, ForPlatform |-> TRUE,
     MinSdkVersion |-> FutureApiLevel, InApexes |-> <<>>, TestFor |-> <<>>,
     AllowMissingDependencies |-> cfg.AllowMissingDependencies, Hwasan |-> FALSE,
     Image |-> "", Library |-> "", buildStubs |-> FALSE]

\* the direct dependencies of a module, in the order VisitDirectDeps visits
\* them (the order in which the edges were added)
ResolveEdges(cfg, name) ==
    LET i == ResolveIndex(name)
        all == [j \in 1..Len(ResolveModules) |->
                   IF j > i THEN Edge(ResolveModules[j], cfg.edges[<<i, j>>])
                   ELSE Edge(ResolveModules[j], NoTag)]
    IN  SelectSeq(all, LAMBDA e : e.tag.Kind # "none")

Producers(cfg, name) ==
    {ResolveEdges(cfg, name)[k].name : k \in 1..Len(ResolveEdges(cfg, name))}

RECURSIVE VisitDirectDeps(_, _, _, _, _)
\* ctx.VisitDirectDeps with the callback of depsToPaths
VisitDirectDeps(c, apexSdk, L, edges, k) ==
    IF k > Len(edges) THEN L
    ELSE VisitDirectDeps(c, apexSdk,
                         VisitDirectDep(c, apexSdk, L, edges[k]).L, edges, k + 1)

\* lines 2549-2561: the ordered static libraries are appended and the
\* lists deduplicated; raw is depPaths before the lists are deduplicated
OrderedAndDeduplicated(L, r) ==
    LET raw == [L.depPaths EXCEPT
                   !.TranstiveStaticLibrariesForOrdering = r.transitive,
                   !.StaticLibs = @ \o r.ordered]
    IN  [panic |-> r.panic, L |-> [L EXCEPT !.depPaths = DedupPathDeps(raw)],
         raw |-> raw]

\* lines 2547-2568: depsToPaths after the visit of the dependencies
AfterVisit(L) ==
    OrderedAndDeduplicated(
        L, orderStaticModuleDeps(L.directStaticDeps, L.directSharedDeps))

\* depsToPaths (lines 2188-2568) of a module of the graph
depsToPaths(cfg, name) ==
    AfterVisit(VisitDirectDeps(ResolveConsumer(cfg),
                               ApexSdkVersionOf(ResolveConsumer(cfg)),
                               EmptyLocal, ResolveEdges(cfg, name), 1))

\* lines 1432-1439: the flags, include directories and system include
\* directories of the dependencies in flags.Local.CommonFlags
CommonFlags(dp) ==
    dp.Flags
    \o [k \in 1..Len(dp.IncludeDirs) |-> "-I" \o dp.IncludeDirs[k]]
    \o [k \in 1..Len(dp.SystemIncludeDirs) |-> "-isystem " \o dp.SystemIncludeDirs[k]]

StagesThrough(stage) ==
    SubSeq(Stages, 1, CHOOSE k \in 1..Len(Stages) : Stages[k] = stage)

\* faulty variant: the module is linked although compile reported an error
BuildStages_LinkAfterCompileError(name, L, fail) ==
    IF L.errors # <<>>
    THEN [stages |-> StagesThrough("depsToPaths"), failed |-> TRUE,
          outputFile |-> "", flags |-> <<>>]
    ELSE IF fail = "flags"
    THEN [stages |-> StagesThrough("flags"), failed |-> TRUE,
          outputFile |-> "", flags |-> <<>>]
    ELSE IF fail = "link"
    THEN [stages |-> StagesThrough("link"), failed |-> TRUE,
          outputFile |-> "", flags |-> CommonFlags(L.depPaths)]
    ELSE [stages |-> StagesThrough("install"), failed |-> fail # "none",
          outputFile |-> ArchiveOf(name), flags |-> CommonFlags(L.depPaths)]

\* lines 1385-1506: GenerateAndroidBuildActions from the return of
\* depsToPaths on: the stages that are invoked, c.outputFile and c.flags
BuildStages(name, L, fail) ==
    IF L.errors # <<>>
    THEN [stages |-> StagesThrough("depsToPaths"), failed |-> TRUE,
          outputFile |-> "", flags |-> <<>>]
    ELSE IF fail = "flags"
    THEN [stages |-> StagesThrough("flags"), failed |-> TRUE,
          outputFile |-> "", flags |-> <<>>]
    ELSE IF fail = "compile"
    THEN [stages |-> StagesThrough("compile"), failed |-> TRUE,
          outputFile |-> "", flags |-> CommonFlags(L.depPaths)]
    ELSE IF fail = "link"
    THEN [stages |-> StagesThrough("link"), failed |-> TRUE,
          outputFile |-> "", flags |-> CommonFlags(L.depPaths)]
    ELSE [stages |-> StagesThrough("install"), failed |-> fail = "install",
          outputFile |-> ArchiveOf(name), flags |-> CommonFlags(L.depPaths)]

\* what the library itself exports (export_include_dirs, export_flags, ...)
OwnExports(name) == ExporterOf(name)

\* what a static library sets when its link has succeeded: its archive and
\* transitive set, and as exported flags its own followed by those its
\* depsToPaths has marked as re-exported
PublishedInfo(name, dp) ==
    [NoModuleInfo EXCEPT
        !.hasStaticInfo = TRUE,
        !.StaticLibraryInfo =
            [StaticLibrary |-> ArchiveOf(name),
             TransitiveStaticLibrariesForOrdering |->
                 NewDepSet(<<ArchiveOf(name)>>,
                           <<dp.TranstiveStaticLibrariesForOrdering>>)],
        !.isStatic = TRUE,
        !.OutputFile = ArchiveOf(name),
        !.FlagExporterInfo =
            [IncludeDirs |-> OwnExports(name).IncludeDirs \o dp.ReexportedDirs,
             SystemIncludeDirs |->
                 OwnExports(name).SystemIncludeDirs \o dp.ReexportedSystemDirs,
             Flags |-> OwnExports(name).Flags \o dp.ReexportedFlags,
             Deps |-> OwnExports(name).Deps \o dp.ReexportedDeps,
             GeneratedHeaders |->
                 OwnExports(name).GeneratedHeaders \o dp.ReexportedGeneratedHeaders]]

\* a module before its GenerateAndroidBuildActions is called
Unresolved ==
    [status |-> "waiting", L |-> EmptyLocal, raw |-> EmptyPathDeps,
     read |-> [p \in ResolveNames |-> NoModuleInfo],
     stages |-> <<>>, failed |-> FALSE, outputFile |-> "", flags |-> <<>>,
     nPublished |-> 0]

NothingResolved == [m \in ResolveNames |-> Unresolved]

NothingPublished == [m \in ResolveNames |-> NoModuleInfo]

ResolveIdle ==
    /\ resConfig = CHOOSE cfg \in ResolveConfigs :
                      /\ \A p \in ResolvePairs : cfg.edges[p] = NoTag
                      /\ \A m \in ResolveNames : cfg.fails[m] = "none"
                      /\ ~cfg.AllowMissingDependencies
    /\ resState = NothingResolved
    /\ published = NothingPublished
    /\ resOrder = <<>>
    /\ resRun = 0
    /\ resFirst = [state |-> NothingResolved, order |-> <<>>]

ResolveInit ==
    /\ resConfig \in ResolveConfigs
    /\ resState = NothingResolved
    /\ published = NothingPublished
    /\ resOrder = <<>>
    /\ resRun = 1
    /\ resFirst = [state |-> NothingResolved, order |-> <<>>]

ProducersDone(name) ==
    \A p \in Producers(resConfig, name) : resState[p].status = "done"

\* faulty variant: a module is started whatever the state of its producers
Startable_NoBarrier(name) == TRUE

\* faulty variant: a module is started when one of its producers is done
Startable_SomeProducer(name) ==
    \/ Producers(resConfig, name) = {}
    \/ \E p \in Producers(resConfig, name) : resState[p].status = "done"

\* faulty variant: a module is not started when one of its producers failed
Startable_UnlessProducerFailed(name) ==
    \A p \in Producers(resConfig, name) :
        resState[p].status = "done" /\ ~resState[p].failed

\* the scheduling of the pass: a module is visited when all of its direct
\* dependencies have been
Startable(name) == ProducersDone(name)

\* the module once depsToPaths has returned r; read is what the call has
\* read of each producer
Resolved(st, name, r) ==
    [st EXCEPT !.status = IF r.panic THEN "panic" ELSE "running",
               !.L = r.L, !.raw = r.raw,
               !.read = [p \in ResolveNames |->
                            IF p \in Producers(resConfig, name)
                            THEN ModuleInfo(p) ELSE NoModuleInfo]]

\* a worker calls GenerateAndroidBuildActions of a module: lines 1329-1388,
\* up to the return of depsToPaths
StartResolve ==
    /\ resRun \in {1, 2}
    /\ \E name \in ResolveNames :
          /\ resState[name].status = "waiting"
          /\ Startable(name)
          /\ resState' = [resState EXCEPT ![name] =
                             Resolved(@, name, depsToPaths(resConfig, name))]
          /\ resOrder' = Append(resOrder, name)
    /\ UNCHANGED <<resConfig, published, resRun, resFirst>>
    /\ UNCHANGED <<chooseVars, orderVars, pathsVars, mutatorVars, rewriteVars, linkVars, walkVars, pipeVars>>

\* the module once GenerateAndroidBuildActions has returned
Built(st, b) ==
    [st EXCEPT !.status = "done", !.stages = b.stages, !.failed = b.failed,
               !.outputFile = b.outputFile, !.flags = b.flags,
               !.nPublished = IF b.outputFile # "" THEN @ + 1 ELSE @]

\* the call returns: lines 1390-1506, and the module's providers are set
\* if its link succeeded
FinishResolve ==
    /\ resRun \in {1, 2}
    /\ \E name \in ResolveNames :
          /\ resState[name].status = "running"
          /\ resState' = [resState EXCEPT ![name] =
                Built(@, BuildStages(name, resState[name].L, resConfig.fails[name]))]
          /\ published' =
                IF resState'[name].outputFile # ""
                THEN [published EXCEPT ![name] =
                         PublishedInfo(name, resState[name].L.depPaths)]
                ELSE published
    /\ UNCHANGED <<resConfig, resOrder, resRun, resFirst>>
    /\ UNCHANGED <<chooseVars, orderVars, pathsVars, mutatorVars, rewriteVars, linkVars, walkVars, pipeVars>>

AllResolved == \A m \in ResolveNames : resState[m].status = "done"

\* the same graph is resolved a second time
NextRun ==
    /\ resRun = 1
    /\ AllResolved
    /\ resFirst' = [state |-> resState, order |-> resOrder]
    /\ resState' = NothingResolved
    /\ published' = NothingPublished
    /\ resOrder' = <<>>
    /\ resRun' = 2
    /\ UNCHANGED resConfig
    /\ UNCHANGED <<chooseVars, orderVars, pathsVars, mutatorVars, rewriteVars, linkVars, walkVars, pipeVars>>

ChooseNext == ChooseCall

InitChooseHarness ==
    /\ OrderIdle
    /\ PathsIdle
    /\ MutatorIdle
    /\ RewriteIdle
    /\ LinkIdle
    /\ WalkIdle
    /\ PipeIdle
    /\ ResolveIdle
    /\ ChooseInit

SpecChoose == InitChooseHarness /\ [][ChooseNext]_vars

OrderNext == AddStaticDep \/ AddSharedDep \/ OrderCall

InitOrderHarness ==
    /\ ChooseIdle
    /\ PathsIdle
    /\ MutatorIdle
    /\ RewriteIdle
    /\ LinkIdle
    /\ WalkIdle
    /\ PipeIdle
    /\ ResolveIdle
    /\ OrderInit

SpecOrder == InitOrderHarness /\ [][OrderNext]_vars

Init ==
    /\ ChooseIdle
    /\ OrderIdle
    /\ MutatorIdle
    /\ RewriteIdle
    /\ LinkIdle
    /\ WalkIdle
    /\ PipeIdle
    /\ ResolveIdle
    /\ PathsInit

Next == PathsStart \/ VisitDep \/ PathsFinish

Spec == Init /\ [][Next]_vars

InitImage ==
    /\ ChooseIdle
    /\ OrderIdle
    /\ MutatorIdle
    /\ RewriteIdle
    /\ LinkIdle
    /\ WalkIdle
    /\ PipeIdle
    /\ ResolveIdle
    /\ PathsImageInit

SpecImage == InitImage /\ [][Next]_vars

InitLibrary ==
    /\ ChooseIdle
    /\ OrderIdle
    /\ MutatorIdle
    /\ RewriteIdle
    /\ LinkIdle
    /\ WalkIdle
    /\ PipeIdle
    /\ ResolveIdle
    /\ PathsLibraryInit

SpecLibrary == InitLibrary /\ [][Next]_vars

ResolveNext == StartResolve \/ FinishResolve \/ NextRun

InitResolve ==
    /\ ChooseIdle
    /\ OrderIdle
    /\ PathsIdle
    /\ MutatorIdle
    /\ RewriteIdle
    /\ LinkIdle
    /\ WalkIdle
    /\ PipeIdle
    /\ ResolveInit

SpecResolve == InitResolve /\ [][ResolveNext]_vars

MutatorNext == Declare \/ DepsMutator

InitMutator ==
    /\ ChooseIdle
    /\ OrderIdle
    /\ PathsIdle
    /\ RewriteIdle
    /\ LinkIdle
    /\ WalkIdle
    /\ PipeIdle
    /\ ResolveIdle
    /\ MutatorInit

SpecMutator == InitMutator /\ [][MutatorNext]_vars

RewriteNext == Rewrite

InitRewrite ==
    /\ ChooseIdle
    /\ OrderIdle
    /\ PathsIdle
    /\ MutatorIdle
    /\ LinkIdle
    /\ WalkIdle
    /\ PipeIdle
    /\ ResolveIdle
    /\ RewriteInit

SpecRewrite == InitRewrite /\ [][RewriteNext]_vars

LinkNext == CheckLinkType

InitLink ==
    /\ ChooseIdle
    /\ OrderIdle
    /\ PathsIdle
    /\ MutatorIdle
    /\ RewriteIdle
    /\ WalkIdle
    /\ PipeIdle
    /\ ResolveIdle
    /\ LinkInit

SpecLink == InitLink /\ [][LinkNext]_vars

WalkNext == CheckDoubleLoadable

InitWalk ==
    /\ ChooseIdle
    /\ OrderIdle
    /\ PathsIdle
    /\ MutatorIdle
    /\ RewriteIdle
    /\ LinkIdle
    /\ PipeIdle
    /\ ResolveIdle
    /\ WalkInit

SpecWalk == InitWalk /\ [][WalkNext]_vars

PipeNext == StartMutator \/ FinishMutator \/ NextMutator

InitPipe ==
    /\ ChooseIdle
    /\ OrderIdle
    /\ PathsIdle
    /\ MutatorIdle
    /\ RewriteIdle
    /\ LinkIdle
    /\ WalkIdle
    /\ ResolveIdle
    /\ PipeInit

SpecPipe == InitPipe /\ [][PipeNext]_vars

(***************************************************************************)
(* Claims about chooseSdkVersion (checked under SpecChoose)                *)
(***************************************************************************)
\* the entries of the argument whose label has a version
Parsable(stubs) == {k \in 1..Len(stubs) : ~StubVersion(stubs[k]).err}

VerOf(stubs, k) == StubVersion(stubs[k]).level

\* the entries whose version is <= the ceiling
Satisfying(stubs, max) == {k \in Parsable(stubs) : VerOf(stubs, k) <= max}

\* a stub table ordered oldest to newest: every label has a version and the
\* versions do not decrease
OrderedTable(stubs) ==
    /\ Parsable(stubs) = 1..Len(stubs)
    /\ \A i, j \in 1..Len(stubs) : i < j => VerOf(stubs, i) <= VerOf(stubs, j)

\* C1: on a table ordered oldest to newest with some entry <= ceiling,
\* chooseSdkVersion returns without error the entry met first when scanning
\* from the newest end, which is an entry of the largest version <= ceiling;
\* the entry labelled "" (unbounded) is returned only for an unbounded ceiling.
C1_LargestNotAboveCeiling ==
    (choosePc = "done" /\ OrderedTable(stubsInfo)
        /\ Satisfying(stubsInfo, maxSdkVersion) # {})
    => /\ chooseRet.err = NilError
       /\ \E k \in Satisfying(stubsInfo, maxSdkVersion) :
            /\ chooseRet.entry = stubsInfo[k]
            /\ \A j \in 1..Len(stubsInfo) :
                   j > k => ~(VerOf(stubsInfo, j) <= maxSdkVersion)
            /\ \A j \in Satisfying(stubsInfo, maxSdkVersion) :
                   VerOf(stubsInfo, j) <= VerOf(stubsInfo, k)
       /\ (chooseRet.entry.Version = "" => maxSdkVersion = FutureApiLevel)

\* the example of the stub-monotonicity property, scaled to the model's
\* levels: versions [1, 3, unbounded] and ceiling 2 return the entry of 1
C1_Witness ==
    /\ choosePc = "done"
    /\ Len(stubsInfo) = 3
    /\ stubsInfo[1].Version = "1" /\ stubsInfo[2].Version = "3"
    /\ stubsInfo[3].Version = ""
    /\ maxSdkVersion = 2
    /\ chooseRet.entry = stubsInfo[1]

\* C2 as stated: the call fails, with no entry, exactly when no entry has a
\* version <= ceiling, and the error carries the ceiling and the version list
C2_FailsExactlyWhenNoneSatisfies ==
    choosePc = "done"
    => /\ (chooseRet.err # NilError) <=> (Satisfying(stubsInfo, maxSdkVersion) = {})
       /\ chooseRet.err # NilError
            => /\ chooseRet.entry = NoStubsInfo
               /\ chooseRet.err.kind = "notfound"
               /\ chooseRet.err.ceiling = ApiLevelString(maxSdkVersion)
               /\ chooseRet.err.versionList =
                    [k \in 1..Len(stubsInfo) |-> stubsInfo[k].Version]

\* the entries whose label has no version and that the scan reaches: no
\* newer entry satisfies the ceiling
ReachedUnparsable(stubs, max) ==
    {b \in (1..Len(stubs)) \ Parsable(stubs) :
        \A q \in Satisfying(stubs, max) : q < b}

\* C2 amended: the call fails, with no entry, exactly when no entry has a
\* version <= ceiling or the newest-to-oldest scan meets a label without a
\* version before any satisfying entry.  In the second case the error is
\* the parse error of that label; otherwise it carries the ceiling and the
\* full version list in table order.
C2_FailureCases ==
    choosePc = "done"
    => LET bad == ReachedUnparsable(stubsInfo, maxSdkVersion)
           sat == Satisfying(stubsInfo, maxSdkVersion)
       IN  /\ (chooseRet.err # NilError) <=> (sat = {} \/ bad # {})
           /\ chooseRet.err # NilError => chooseRet.entry = NoStubsInfo
           /\ bad # {}
                => /\ chooseRet.err.kind = "parse"
                   /\ \E b \in bad :
                        /\ chooseRet.err.raw = stubsInfo[b].Version
                        /\ \A c \in bad : c <= b
           /\ (sat = {} /\ bad = {})
                => /\ chooseRet.err.kind = "notfound"
                   /\ chooseRet.err.ceiling = ApiLevelString(maxSdkVersion)
                   /\ chooseRet.err.versionList =
                        [k \in 1..Len(stubsInfo) |-> stubsInfo[k].Version]

\* a ceiling below the oldest version of a two-entry table: not found
C2_Witness ==
    /\ choosePc = "done"
    /\ Len(stubsInfo) = 2
    /\ stubsInfo[1].Version = "2" /\ stubsInfo[2].Version = "3"
    /\ maxSdkVersion = 1
    /\ chooseRet.err.kind = "notfound"
    /\ chooseRet.err.ceiling = "1"
    /\ chooseRet.err.versionList = <<"2", "3">>

(***************************************************************************)
(* Claims about orderStaticModuleDeps (checked under SpecOrder)            *)
(***************************************************************************)
NoDuplicates(s) == \A i, j \in 1..Len(s) : s[i] = s[j] => i = j

\* C3: the sequence orderStaticModuleDeps returns contains every direct
\* static dependency exactly once and nothing else.
C3_EachDirectExactlyOnce ==
    (orderPc = "done" /\ ~orderRet.panic)
    => /\ Range(orderRet.ordered) = Range(DirectStaticPaths(staticDeps))
       /\ NoDuplicates(orderRet.ordered)

\* liba.a is listed twice among the direct dependencies and is also in the
\* set of a shared dependency's static analogue; it is returned once
C3_Witness ==
    /\ orderPc = "done" /\ ~orderRet.panic
    /\ Len(staticDeps) = 2
    /\ staticDeps[1] = LibraryStaticInfo("liba")
    /\ staticDeps[2] = LibraryStaticInfo("liba")
    /\ sharedDeps = <<SharedInfoOf(<<LibraryStaticInfo("liba")>>)>>
    /\ orderRet.ordered = <<"liba.a">>

\* p comes before q in s (both occur)
Before(p, q, s) ==
    \E i, j \in 1..Len(s) : i < j /\ s[i] = p /\ s[j] = q

\* C4: the result is the returned transitive set, listed in topological
\* order without duplicates, filtered down to the direct static
\* dependencies; and two direct dependencies that every contributing
\* transitive set lists in the same relative order come out in that order.
C4_FilteredTransitiveOrder ==
    (orderPc = "done" /\ ~orderRet.panic)
    => LET contrib == ContributingSets(staticDeps, sharedDeps)
           direct == Range(DirectStaticPaths(staticDeps))
           closure == ToList(orderRet.transitive)
       IN  /\ orderRet.transitive = NewDepSet(<<>>, contrib)
           /\ NoDuplicates(closure)
           /\ orderRet.ordered = SelectSeq(closure, LAMBDA p : p \in direct)
           /\ \A p, q \in direct :
                (/\ contrib # <<>>
                 /\ \A k \in 1..Len(contrib) : Before(p, q, ToList(contrib[k])))
                => Before(p, q, orderRet.ordered)

\* libb.a is declared before liba.a, every contributing set lists liba.a
\* before libb.a, and so does the result
C4_Witness ==
    /\ orderPc = "done" /\ ~orderRet.panic
    /\ DirectStaticPaths(staticDeps) = <<"libb.a", "liba.a">>
    /\ \A k \in 1..Len(ContributingSets(staticDeps, sharedDeps)) :
          Before("liba.a", "libb.a",
                 ToList(ContributingSets(staticDeps, sharedDeps)[k]))
    /\ orderRet.ordered = <<"liba.a", "libb.a">>

RECURSIVE DepSetMembers(_)
\* the paths of a set and of the sets below it
DepSetMembers(d) ==
    Range(d.direct) \cup UNION {DepSetMembers(d.transitive[k]) : k \in 1..Len(d.transitive)}

\* the paths of the unioned transitive closure
ClosureMembers(statics, shareds) ==
    UNION {DepSetMembers(ContributingSets(statics, shareds)[k]) :
              k \in 1..Len(ContributingSets(statics, shareds))}

\* C5: orderStaticModuleDeps panics exactly when some direct static
\* dependency is absent from the unioned transitive closure.
C5_PanicsIffDirectMissing ==
    orderPc = "done"
    => (orderRet.panic
        <=> \E p \in Range(DirectStaticPaths(staticDeps)) :
               p \notin ClosureMembers(staticDeps, sharedDeps))

\* a direct dependency whose provider published an empty set, next to a
\* well-formed one: the call panics and names the missing archive
C5_Witness ==
    /\ orderPc = "done" /\ orderRet.panic
    /\ Len(staticDeps) = 2
    /\ staticDeps[1] = LibraryStaticInfo("libb")
    /\ staticDeps[2] = FlatStaticInfo("liba", <<>>)
    /\ orderRet.missing = <<"liba.a">>

(***************************************************************************)
(* Claims about the stub-versus-implementation decision of depsToPaths     *)
(* (checked under Spec).  They are stated on the state right after the     *)
(* callback of a shared edge, before the lists are deduplicated.           *)
(***************************************************************************)
IsSuffix(t, s) ==
    /\ Len(t) <= Len(s)
    /\ \A k \in 1..Len(t) : s[Len(s) - Len(t) + k] = t[k]

\* the last visit was of a shared edge whose producer publishes a shared
\* library with a valid artifact path
SharedEdgeVisited ==
    /\ pathsPc = "visit" /\ nVisited > 0
    /\ visit.edge.tag.Kind = "shared"
    /\ ModuleInfo(visit.edge.name).hasSharedInfo
    /\ ModuleInfo(visit.edge.name).SharedLibraryInfo.SharedLibrary # ""

VisitedDep == ModuleInfo(visit.edge.name)

\* the list of depPaths the visited shared edge is appended to
VisitedSharedList == local.depPaths[SharedPtr(visit.edge.tag.Order)]

\* the visited edge was linked against the producer variant it points at
ImplementationLinked ==
    /\ visit.d.completed
    /\ VisitedSharedList # <<>>
    /\ VisitedSharedList[Len(VisitedSharedList)] = VisitedDep.SharedLibraryInfo.SharedLibrary
    /\ IsSuffix(VisitedDep.FlagExporterInfo.Flags, local.depPaths.Flags)
    /\ IsSuffix(VisitedDep.FlagExporterInfo.IncludeDirs, local.depPaths.IncludeDirs)

\* the visited edge was linked against the stub entry e
StubLinked(e) ==
    /\ visit.d.completed
    /\ VisitedSharedList # <<>>
    /\ VisitedSharedList[Len(VisitedSharedList)] = e.SharedLibraryInfo.SharedLibrary
    /\ IsSuffix(e.FlagExporterInfo.Flags, local.depPaths.Flags)
    /\ IsSuffix(e.FlagExporterInfo.IncludeDirs, local.depPaths.IncludeDirs)

\* the visited edge was linked against some entry of the producer's table
SomeStubLinked ==
    \E k \in 1..Len(VisitedDep.Stubs) : StubLinked(VisitedDep.Stubs[k])

\* the stub was preferred for the visited edge: either an entry of the stub
\* table was linked, or the selection failed and the edge was dropped with
\* an error
StubPreferred ==
    /\ visit.d.chooseCalled
    /\ visit.d.chosen = chooseSdkVersion(VisitedDep.Stubs, apexSdkVersion)
    /\ IF visit.d.chosen.err = NilError
       THEN StubLinked(visit.d.chosen.entry)
       ELSE ~visit.d.completed /\ local.errors # <<>>

\* C6: the decision is taken for a shared edge only when the producer
\* publishes a non-empty stub table and the edge is not explicitly
\* versioned; otherwise the artifact and the exported flags are those of the
\* producer variant the edge points at and chooseSdkVersion is not invoked.
C6_DecisionOnlyForUnpinnedStubLibs ==
    SharedEdgeVisited
    => /\ visit.d.decided
            => (Len(VisitedDep.Stubs) > 0 /\ ~visit.edge.tag.explicitlyVersioned)
       /\ (visit.edge.tag.explicitlyVersioned \/ Len(VisitedDep.Stubs) = 0)
            => /\ ~visit.d.chooseCalled
               /\ ~visit.d.useStubs
               /\ ImplementationLinked
               /\ ~SomeStubLinked

\* an explicitly-versioned edge to a producer with stubs, from a consumer
\* for which the rules would prefer the stub
C6_Witness ==
    /\ SharedEdgeVisited
    /\ visit.edge.name = "libapex"
    /\ visit.edge.tag.explicitlyVersioned
    /\ consumer.ForPlatform /\ ~consumer.Bootstrap /\ consumer.TestFor = <<>>
    /\ ~consumer.UseVndk
    /\ ImplementationLinked

\* the decision is taken for the visited edge
DecisionTaken ==
    /\ SharedEdgeVisited
    /\ Len(VisitedDep.Stubs) > 0
    /\ ~visit.edge.tag.explicitlyVersioned

\* rule 1 applies: LLNDK producer, vendor/product consumer
Rule1Applies == VisitedDep.buildStubs /\ consumer.UseVndk

\* C7: for an LLNDK producer and a vendor/product consumer the stub is
\* chosen iff the consumer is not a platform build, whatever rules 2 and 3
\* would say (the producer of the model is directly in an APEX).
C7_LlndkRuleFirst ==
    (DecisionTaken /\ Rule1Applies)
    => /\ visit.d.useStubs <=> ~consumer.ForPlatform
       /\ consumer.ForPlatform => (ImplementationLinked /\ ~visit.d.chooseCalled)
       /\ ~consumer.ForPlatform => StubPreferred

\* a platform vendor consumer, not bootstrap and not bundled with the APEX,
\* links the implementation of an LLNDK producer that is in an APEX
C7_Witness ==
    /\ DecisionTaken /\ Rule1Applies
    /\ consumer.ForPlatform /\ ~consumer.Bootstrap /\ consumer.TestFor = <<>>
    /\ VisitedDep.AnyVariantDirectlyInAnyApex
    /\ ImplementationLinked

\* the consumer is declared a test for an APEX that directly contains the
\* visited producer
ConsumerBundledWithProducer ==
    \E k \in 1..Len(consumer.TestFor) :
        visit.edge.name \in ApexDirectContents(consumer.TestFor[k])

\* C8: when rule 1 does not apply and the consumer is a platform build, the
\* stub is preferred only when the producer is directly in some APEX and the
\* consumer is not bundled with an APEX that contains it; if either fails
\* the implementation is linked.
C8_PlatformRule ==
    (DecisionTaken /\ ~Rule1Applies /\ consumer.ForPlatform)
    => /\ visit.d.useStubs
            => (VisitedDep.AnyVariantDirectlyInAnyApex /\ ~ConsumerBundledWithProducer)
       /\ ~(VisitedDep.AnyVariantDirectlyInAnyApex /\ ~ConsumerBundledWithProducer)
            => (ImplementationLinked /\ ~visit.d.chooseCalled /\ ~SomeStubLinked)

\* a platform consumer that is a test for the APEX containing the producer
\* links the implementation
C8_Witness ==
    /\ DecisionTaken /\ ~Rule1Applies /\ consumer.ForPlatform
    /\ ~consumer.Bootstrap
    /\ visit.edge.name = "libapex"
    /\ consumer.TestFor = <<"com.android.one">>
    /\ ImplementationLinked

\* the visited producer is directly in every APEX of the consumer
ProducerInEveryApexOfConsumer ==
    \A k \in 1..Len(consumer.InApexes) :
        visit.edge.name \in ApexDirectContents(consumer.InApexes[k])

\* C9: when rule 1 does not apply and the consumer is built for an APEX, the
\* stub is chosen iff the producer is not directly in every APEX the
\* consumer is in.
C9_ApexRule ==
    (DecisionTaken /\ ~Rule1Applies /\ ~consumer.ForPlatform)
    => /\ visit.d.useStubs <=> ~ProducerInEveryApexOfConsumer
       /\ ~ProducerInEveryApexOfConsumer => StubPreferred
       /\ ProducerInEveryApexOfConsumer
            => (ImplementationLinked /\ ~visit.d.chooseCalled /\ ~SomeStubLinked)

\* a consumer in two APEXes, one of which does not contain the producer,
\* links the newest stub its ceiling allows
C9_Witness ==
    /\ DecisionTaken /\ ~Rule1Applies /\ ~consumer.ForPlatform
    /\ consumer.InApexes = <<"com.android.one", "com.android.two">>
    /\ visit.edge.name = "libapex"
    /\ apexSdkVersion = FutureApiLevel
    /\ StubLinked(StubsInfoOf("libapex", "3"))

\* a stub was selected for the visited edge and no version satisfies the
\* consumer's ceiling
StubSelectionFailed ==
    /\ DecisionTaken
    /\ visit.d.chooseCalled
    /\ visit.d.chosen.err # NilError

\* C10 as stated: the failure of the stub selection is an error attributed
\* to the consumer, not to the producer.
C10_ErrorAttributedToConsumer ==
    StubSelectionFailed
    => /\ local.errors # <<>>
       /\ local.errors[Len(local.errors)].text = visit.d.chosen.err
       /\ local.errors[Len(local.errors)].module = ConsumerName

(***************************************************************************)
(* C11: producers without an output                                        *)
(***************************************************************************)
\* the edge is a static (resp. shared) edge to a producer that publishes
\* no static (resp. shared) output, or one whose artifact path is invalid
MissingOutput(edge) ==
    LET dep == ModuleInfo(edge.name)
    IN  \/ /\ edge.tag.Kind = "shared"
           /\ ~dep.hasSharedInfo \/ dep.SharedLibraryInfo.SharedLibrary = ""
        \/ /\ edge.tag.Kind = "static"
           /\ ~dep.hasStaticInfo \/ dep.StaticLibraryInfo.StaticLibrary = ""

\* the edge that a step of VisitDep has visited
VisitedBy(edge) ==
    /\ pathsPc = "visit" /\ nVisited' = nVisited + 1
    /\ visit'.edge = edge

\* C11: when depsToPaths visits a static or shared edge whose producer has
\* no output of that kind or an invalid artifact path, then with
\* AllowMissingDependencies the visit records the producer as a missing
\* dependency, reports no error, adds nothing to the link inputs and the
\* visit of the other edges goes on; without it the visit reports one error
\* against the consumer and records no missing dependency.
C11_MissingOutputHandled ==
    [][\A edge \in EdgePool :
          VisitedBy(edge) /\ MissingOutput(edge) =>
              /\ pathsPc' = "visit"
              /\ local'.depPaths = local.depPaths
              /\ IF consumer.AllowMissingDependencies
                 THEN /\ local'.missingDeps = Append(local.missingDeps, edge.name)
                      /\ local'.errors = local.errors
                 ELSE /\ local'.missingDeps = local.missingDeps
                      /\ Len(local'.errors) = Len(local.errors) + 1
                      /\ local'.errors[Len(local'.errors)].module = ConsumerName]_vars

(***************************************************************************)
(* Claims about Module.deps and DepsMutator (checked under SpecMutator)    *)
(***************************************************************************)
\* the deps mutator has run on an enabled module
Mutated == mutatorPc = "done" /\ module.Enabled

NamesOf(s) == [k \in 1..Len(s) |-> s[k].name]

\* the names that the errors against a property report, in order
ReportedFor(property) ==
    NamesOf(SelectSeq(mutated.errors, LAMBDA e : e.property = property))

\* the entries of a reexport list that the dependency list does not have
Offending(reexport, list) == SelectSeq(reexport, LAMBDA n : ~InList(n, list))

\* C12: for each of the four reexport lists (shared, static, header,
\* generated header) the errors reported for its property are exactly the
\* entries of the list that are not in the corresponding dependency list,
\* one error for each; all of them are against the declaring module, and
\* nothing is reported for a list that is a subset of its dependency list.
C12_ReexportListsValidated ==
    Mutated =>
        /\ ReportedFor("export_shared_lib_headers") =
              Offending(props.ReexportSharedLibHeaders, props.SharedLibs)
        /\ ReportedFor("export_static_lib_headers") =
              Offending(props.ReexportStaticLibHeaders, props.StaticLibs)
        /\ ReportedFor("export_header_lib_headers") =
              Offending(props.ReexportHeaderLibHeaders, props.HeaderLibs)
        /\ ReportedFor("export_generated_headers") =
              Offending(props.ReexportGeneratedHeaders, props.GeneratedHeaders)
        /\ \A k \in 1..Len(mutated.errors) : mutated.errors[k].module = ModuleName

\* a module that reexports a shared library it does not depend on and a
\* static library it does depend on
C12_Witness ==
    /\ Mutated
    /\ props.ReexportSharedLibHeaders = <<(<<"libfoo">>), <<"libc">>>>
    /\ Len(mutated.errors) = 2

\* a module whose reexport list is within its dependency list
C12_WitnessSubset ==
    /\ Mutated
    /\ props.ReexportStaticLibHeaders = <<(<<"liba">>)>>
    /\ props.StaticLibs = <<(<<"liba">>)>>
    /\ mutated.errors = <<>>

\* the dependencies that carry a libraryDependencyTag
LibraryDependencies == SelectSeq(mutated.dependencies, LAMBDA e : IsLibraryTag(e.tag))

\* two dependencies on the same (name, kind, order)
SameTuple(e, f) ==
    e.name = f.name /\ e.tag.Kind = f.tag.Kind /\ e.tag.Order = f.tag.Order

\* C13: no two library dependencies that DepsMutator adds for a module have
\* the same rewritten name, the same kind (header, shared, static) and the
\* same order (early, normal, late), whatever the module declares.
C13_OneEdgePerTuple ==
    Mutated =>
        \A i, j \in 1..Len(LibraryDependencies) :
            i # j => ~SameTuple(LibraryDependencies[i], LibraryDependencies[j])

\* the library a dependency is on: its name without a #version suffix
LibraryOf(e) == StubsLibNameAndVersion(e.name).name

SharedDependenciesOfOrder(order) ==
    SelectSeq(LibraryDependencies,
              LAMBDA e : e.tag.Kind = "shared" /\ e.tag.Order = order)

\* C14: DepsMutator never gives a module both a normal-order and a
\* late-order shared dependency on the same library: a late shared library
\* that is also among the normal shared libraries, pinned to a version or
\* not, gets no late dependency.
C14_LateSharedCollapsed ==
    Mutated =>
        \A i \in 1..Len(SharedDependenciesOfOrder("normal")) :
        \A j \in 1..Len(SharedDependenciesOfOrder("late")) :
            LibraryOf(SharedDependenciesOfOrder("normal")[i])
                # LibraryOf(SharedDependenciesOfOrder("late")[j])

\* the shared libraries the module declares for an order
DeclaredShared(order) ==
    IF order = "normal" THEN props.SharedLibs ELSE props.LateSharedLibs

\* the dependency on the NDK stub of a library
NdkStubDependency(name, order) ==
    Dependency(name \o ndkLibrarySuffix,
               [LibTag("shared", order) EXCEPT
                   !.ndk = TRUE, !.makeSuffix = "." \o module.Sdk_version],
               <<[Mutator |-> "version", Variation |-> module.Sdk_version],
                 [Mutator |-> "link", Variation |-> "shared"]>>, FALSE)

\* every declared shared library of the NDK has its dependency redirected
\* to the NDK stub and none on the library itself
NdkLibsRedirected ==
    \A order \in {"normal", "late"} :
    \A k \in 1..Len(DeclaredShared(order)) :
        LET name == StubsLibNameAndVersion(DeclaredShared(order)[k]).name
        IN  InList(name, ndkKnownLibs) =>
                /\ InList(NdkStubDependency(name, order), mutated.dependencies)
                /\ \A i \in 1..Len(LibraryDependencies) :
                      LibraryDependencies[i].tag.Kind = "shared"
                          => LibraryOf(LibraryDependencies[i]) # name

PinnedToSnapshot(c) == c.VndkVersion = c.DeviceVndkVersion

\* the snapshot module registered in a table for exactly (name, arch)
Registered(snapshotMap, name, arch) ==
    {e.snapshot : e \in {f \in snapshotMap : f.name = name /\ f.arch = arch}}

\* the name C16 gives a shared library of a vendor/product module
VendorName(c, name) ==
    IF name \in llndkLibraries THEN name \o llndkLibrarySuffix
    ELSE IF PinnedToSnapshot(c) /\ Registered(vendorSnapshotSharedLibs, name, c.Arch) # {}
    THEN CHOOSE n \in Registered(vendorSnapshotSharedLibs, name, c.Arch) : TRUE
    ELSE name

SnapshotRule(c, name, snapshotMap) ==
    IF PinnedToSnapshot(c) /\ Registered(snapshotMap, name, c.Arch) # {}
    THEN CHOOSE n \in Registered(snapshotMap, name, c.Arch) : TRUE
    ELSE name

SubstitutedList(list, snapshotMap) ==
    [k \in 1..Len(list) |-> SnapshotRule(module, list[k], snapshotMap)]

\* the names of the dependencies that satisfy Which, in the order added
DependencyNames(Which(_)) == NamesOf(SelectSeq(mutated.dependencies, Which))

HasTagName(e, name) == ~IsLibraryTag(e.tag) /\ e.tag.name = name

\* the runtime-library snapshot table of C17; the configuration registers
\* runtime libraries in no table of their own
RuntimeSnapshotTable == {}

\* the parts of C17 about the header and static lists and the crt objects
HeaderAndStaticSubstituted ==
    /\ DependencyNames(LAMBDA e : IsLibraryTag(e.tag) /\ e.tag.Kind = "header") =
          SubstitutedList(LastUniqueStrings(props.HeaderLibs), vendorSnapshotHeaderLibs)
    /\ DependencyNames(LAMBDA e : IsLibraryTag(e.tag) /\ e.tag.Kind = "static"
                                  /\ e.tag.wholeStatic) =
          SubstitutedList([k \in 1..Len(LastUniqueStrings(props.WholeStaticLibs)) |->
                              SyspropImpl(LastUniqueStrings(props.WholeStaticLibs)[k])],
                          vendorSnapshotStaticLibs)
    /\ DependencyNames(LAMBDA e : IsLibraryTag(e.tag) /\ e.tag.Kind = "static"
                                  /\ ~e.tag.wholeStatic /\ ~e.tag.staticUnwinder
                                  /\ e.tag.Order = "normal") =
          SubstitutedList([k \in 1..Len(LastUniqueStrings(props.StaticLibs)) |->
                              SyspropImpl(LastUniqueStrings(props.StaticLibs)[k])],
                          vendorSnapshotStaticLibs)
    /\ DependencyNames(LAMBDA e : IsLibraryTag(e.tag) /\ e.tag.Kind = "static"
                                  /\ e.tag.Order = "late") =
          SubstitutedList(LastUniqueStrings(props.LateStaticLibs), vendorSnapshotStaticLibs)
    /\ DependencyNames(LAMBDA e : HasTagName(e, "crtbegin") \/ HasTagName(e, "crtend")) =
          SubstitutedList((IF props.CrtBegin # <<>> THEN <<props.CrtBegin>> ELSE <<>>)
                          \o (IF props.CrtEnd # <<>> THEN <<props.CrtEnd>> ELSE <<>>),
                          vendorSnapshotObjects)

ObjFilesSubstituted ==
    DependencyNames(LAMBDA e : HasTagName(e, "obj")) =
        SubstitutedList(props.ObjFiles, vendorSnapshotObjects)

RuntimeLibsSubstituted ==
    DependencyNames(LAMBDA e : HasTagName(e, "runtime lib")) =
        SubstitutedList(LastUniqueStrings(props.RuntimeLibs), RuntimeSnapshotTable)

\* C17: the dependencies of a module on its header libraries, its static
\* libraries (whole, normal and late), its objects and its runtime
\* libraries are on the names that the snapshot substitution rule gives
\* for every declared entry, each list against the table of its own kind.
C17_SnapshotSubstitutionEveryList ==
    (Mutated /\ ~module.buildStubs) =>
        HeaderAndStaticSubstituted /\ ObjFilesSubstituted /\ RuntimeLibsSubstituted

(***************************************************************************)
(* Claim about the name rewriting (checked under SpecRewrite)              *)
(***************************************************************************)
RewrittenTwice == rwPc = "done"

\* C18 as stated: for every name, module and snapshot table, rewriting the
\* rewritten name returns it unchanged.
C18_RewritingIdempotent == RewrittenTwice => rwOut[2] = rwOut[1]

\* no name that the rewriting produces is itself a name that is rewritten:
\* no snapshot module and no LLNDK variant is the base name of a snapshot
\* module or an LLNDK library
NoRewrittenNameRegistered(snapshotMap) ==
    LET produced == {e.snapshot : e \in snapshotMap}
                    \cup {l \o llndkLibrarySuffix : l \in llndkLibraries}
    IN  \A n \in produced :
            /\ n \notin llndkLibraries
            /\ \A e \in snapshotMap : e.name # n

\* C18 as the code has it: rewriting the rewritten name returns it
\* unchanged when no rewritten name is registered as a name to rewrite.
C18_IdempotentUnlessChained ==
    (RewrittenTwice /\ NoRewrittenNameRegistered(rwCall.snapshotMap))
        => rwOut[2] = rwOut[1]

\* the name was rewritten by the first call and kept by the second
C18_Witness ==
    /\ RewrittenTwice /\ NoRewrittenNameRegistered(rwCall.snapshotMap)
    /\ rwCall.fn = "rewriteSnapshotLibs"
    /\ rwLib = <<"libfoo">>
    /\ rwOut = <<SnapshotName(<<"libfoo">>, "shared", "arm64"),
                 SnapshotName(<<"libfoo">>, "shared", "arm64")>>

(***************************************************************************)
(* checkLinkType: API levels and STL families                              *)
(***************************************************************************)
Checked == linkPc = "done"

\* the consumer is an Android module outside vendor, ramdisk and recovery
\* and the producer is built against the SDK
SdkEdge ==
    /\ IsLibraryTag(linkTag)
    /\ linkFrom.Os = "android"
    /\ ~linkFrom.UseVndk
    /\ ~linkFrom.InRamdisk /\ ~linkFrom.InVendorRamdisk /\ ~linkFrom.InRecovery
    /\ linkFrom.SdkVersion # <<>>
    /\ linkTo.SdkVersion # <<>>

\* the producer is one the checker always allows
AlwaysAllowed ==
    \/ linkTo.isCcModule
       /\ (linkTo.ToolchainLibrary \/ linkTo.NdkPrebuiltStl \/ linkTo.StubDecorator)
    \/ linkFrom.Name[1] = "libclang_rt." /\ linkTo.Name = <<"libc++">>

NewerApiReported ==
    \E k \in 1..Len(linkErrors) :
        /\ linkErrors[k].text = "links built against newer API version"
        /\ linkErrors[k].module = linkFrom.Name
        /\ linkErrors[k].dep = linkTo.Name

IsNumber(v) == ~Atoi(v).err

ProducerNewer ==
    \/ linkTo.SdkVersion = <<"current">>
    \/ /\ IsNumber(linkTo.SdkVersion)
       /\ Atoi(linkTo.SdkVersion).n > Atoi(linkFrom.SdkVersion).n

ProducerNotNewer ==
    /\ IsNumber(linkTo.SdkVersion)
    /\ Atoi(linkTo.SdkVersion).n <= Atoi(linkFrom.SdkVersion).n

ApiLevelsMonotonic ==
    /\ IsNumber(linkFrom.SdkVersion) /\ ProducerNewer => NewerApiReported
    /\ IsNumber(linkFrom.SdkVersion) /\ ProducerNotNewer => ~NewerApiReported
    /\ linkFrom.SdkVersion = <<"current">> => ~NewerApiReported

\* C19 as stated: on every library edge from an Android consumer outside
\* vendor, ramdisk and recovery that has a numeric API level to a producer
\* built against the SDK, an error naming the producer is reported when the
\* producer is at "current" or at a numerically higher level, and none when
\* the producer's level is at most the consumer's or the consumer is at
\* "current".
C19_ApiLevelMonotonic ==
    Checked /\ SdkEdge => ApiLevelsMonotonic

\* C19 amended: the same, for producers other than toolchain libraries,
\* NDK prebuilt STLs and NDK stub libraries, and other than libc++ when the
\* consumer is a libclang_rt. library; those edges are never reported.
C19_ApiLevelMonotonicUnlessAllowed ==
    /\ Checked /\ SdkEdge /\ ~AlwaysAllowed => ApiLevelsMonotonic
    /\ Checked /\ SdkEdge /\ AlwaysAllowed => ~NewerApiReported

\* a consumer at 9 is rejected for a producer at 10
C19_Witness ==
    /\ Checked /\ SdkEdge /\ ~AlwaysAllowed
    /\ linkFrom.SdkVersion = <<"9">>
    /\ linkTo.SdkVersion = <<"1", "0">>
    /\ NewerApiReported

StlReported ==
    \E k \in 1..Len(linkErrors) :
        /\ linkErrors[k].text = "uses incompatible STL"
        /\ linkErrors[k].module = linkFrom.Name
        /\ linkErrors[k].dep = linkTo.Name

StlFamiliesDiffer ==
    /\ linkFrom.SelectedStl # "" /\ linkTo.SelectedStl # ""
    /\ linkFrom.SelectedStl # "ndk_system" /\ linkTo.SelectedStl # "ndk_system"
    /\ getNdkStlFamily(linkFrom) # getNdkStlFamily(linkTo)

\* C20: on every checked edge between two modules built against the SDK an
\* STL error is reported if and only if both modules have selected an STL,
\* neither uses "ndk_system", and the two STLs are of different families.
C20_StlFamiliesMatch ==
    Checked /\ SdkEdge /\ ~AlwaysAllowed => (StlReported <=> StlFamiliesDiffer)

\* a libc++ consumer is rejected for a producer of another family
C20_Witness ==
    /\ Checked /\ SdkEdge /\ ~AlwaysAllowed
    /\ linkFrom.SelectedStl = "ndk_libc++_shared"
    /\ linkTo.SelectedStl = "ndk_libstlport_shared"
    /\ StlReported

(***************************************************************************)
(* checkDoubleLoadableLibraries                                            *)
(***************************************************************************)
Walked == walkPc = "done"

\* module 1 is a shared library that is LLNDK or marked double_loadable
DoubleLoadableRoot ==
    /\ walkModules[1].isCcModule /\ walkModules[1].sharedLibrary
    /\ walkModules[1].isLlndk \/ walkModules[1].Double_loadable

\* the dependency paths that start at module 1
DependencyPaths ==
    {p \in UNION {[1..n -> WalkModuleIds] : n \in 2..MaxWalkModules} :
        /\ p[1] = 1
        /\ \A k \in 1..(Len(p) - 1) :
              \E j \in 1..Len(walkDeps[p[k]]) : walkDeps[p[k]][j] = p[k + 1]}

VendorCapableSharedLibrary(m) ==
    walkModules[m].isCcModule /\ walkModules[m].sharedLibrary
        /\ walkModules[m].HasVendorVariant

DoubleLoadSafe(m) ==
    walkModules[m].isVndkSp \/ walkModules[m].isLlndk \/ walkModules[m].Double_loadable

\* an error against module 1 that names module m and the path p
ReportedWithPath(m, p) ==
    \E k \in 1..Len(walkErrors) :
        /\ walkErrors[k].module = 1
        /\ walkErrors[k].dep = m
        /\ walkErrors[k].path = p

ReportedLibrary(m) == \E k \in 1..Len(walkErrors) : walkErrors[k].dep = m

\* C21 as stated: when module 1 is a shared library that is LLNDK or
\* double_loadable, every shared library with a vendor variant that a
\* dependency path leads to and that is neither VNDK-SP nor LLNDK nor
\* double_loadable is reported with a dependency path from module 1 to it,
\* and no library that is double-load-safe is reported.
C21_EveryReachableReported ==
    Walked /\ DoubleLoadableRoot =>
        \A p \in DependencyPaths :
            LET m == p[Len(p)]
            IN  /\ VendorCapableSharedLibrary(m) /\ ~DoubleLoadSafe(m) =>
                      \E q \in DependencyPaths : q[Len(q)] = m /\ ReportedWithPath(m, q)
                /\ VendorCapableSharedLibrary(m) /\ DoubleLoadSafe(m) =>
                      ~ReportedLibrary(m)

\* the walk goes on below a shared library that has no vendor variant
WalkedThrough(m) ==
    walkModules[m].isCcModule /\ walkModules[m].sharedLibrary
        /\ ~walkModules[m].HasVendorVariant

\* the dependency paths whose intermediate modules are all walked through
WalkedPaths ==
    {p \in DependencyPaths : \A k \in 2..(Len(p) - 1) : WalkedThrough(p[k])}

\* C21 amended: when module 1 is a shared library that is LLNDK or
\* double_loadable, every shared library with a vendor variant that is
\* neither VNDK-SP nor LLNDK nor double_loadable and that a dependency path
\* through shared libraries without a vendor variant leads to is reported
\* with such a path from module 1 to it; nothing else is reported, and
\* nothing at all when module 1 is not such a library.
C21_ReachableThroughWalkedReported ==
    Walked =>
        /\ DoubleLoadableRoot =>
              \A p \in WalkedPaths :
                  LET m == p[Len(p)]
                  IN  VendorCapableSharedLibrary(m) /\ ~DoubleLoadSafe(m) =>
                          \E q \in WalkedPaths : q[Len(q)] = m /\ ReportedWithPath(m, q)
        /\ \A k \in 1..Len(walkErrors) :
              /\ DoubleLoadableRoot
              /\ walkErrors[k].path \in WalkedPaths
              /\ walkErrors[k].dep = walkErrors[k].path[Len(walkErrors[k].path)]
              /\ walkErrors[k].module = 1
              /\ VendorCapableSharedLibrary(walkErrors[k].dep)
              /\ ~DoubleLoadSafe(walkErrors[k].dep)

\* an LLNDK library reaches in two hops a library that is not safe
C21_Witness ==
    /\ Walked
    /\ walkModules[1].isLlndk /\ walkModules[1].sharedLibrary /\ walkModules[1].isCcModule
    /\ walkDeps = (1 :> <<2>> @@ 2 :> <<3>> @@ 3 :> <<>>)
    /\ WalkedThrough(2)
    /\ VendorCapableSharedLibrary(3) /\ ~DoubleLoadSafe(3)
    /\ ReportedWithPath(3, <<1, 2, 3>>)

(***************************************************************************)
(* What the errors of checkLinkType name                                   *)
(***************************************************************************)
\* the name a message would give a dependency tag
TagName(tag) == IF IsLibraryTag(tag) THEN <<tag.Kind>> ELSE <<tag.name>>

\* what the text of an error names: the arguments of its format
NamedIn(e) == {e.dep, e.version}

\* C22: every error of the link-type check is reported against the
\* consumer, and its message names the producer of the edge and the edge's
\* dependency tag.
C22_ErrorsNameEdge ==
    linkPc = "done" =>
        \A k \in 1..Len(linkErrors) :
            /\ linkErrors[k].module = linkFrom.Name
            /\ linkTo.Name \in NamedIn(linkErrors[k])
            /\ TagName(linkTag) \in NamedIn(linkErrors[k])

(***************************************************************************)
(* The order of the mutators (checked under SpecPipe)                      *)
(***************************************************************************)
StartedOn(m, name) == pipeStarted[m] >= MutatorIndex(name)

FinishedOn(m, name) == pipeFinished[m] >= MutatorIndex(name)

\* every module has finished mutator a when some module has started b
RunsAfter(b, a) ==
    \A m, n \in PipeModules : StartedOn(m, b) => FinishedOn(n, a)

\* C23: the mutators run in the registered order with a barrier between
\* them: no module is visited by the mutator after k before every module
\* was visited by k.  The link mutator has finished on all modules before
\* the version mutator starts, the version mutator before begin and the
\* deps mutator start, and check_linktype and double_loadable run after the
\* deps mutator has finished on all modules.
C23_PassesInOrderWithBarrier ==
    /\ \A m, n \in PipeModules : pipeStarted[m] <= pipeFinished[n] + 1
    /\ RunsAfter("version", "link")
    /\ RunsAfter("begin", "version")
    /\ RunsAfter("deps", "version")
    /\ RunsAfter("deps", "begin")
    /\ RunsAfter("check_linktype", "deps")
    /\ RunsAfter("double_loadable", "deps")
    /\ RunsAfter("check_linktype", "sanitize_runtime_deps")

\* one module has finished the link mutator and is held back while another
\* has not finished it
C23_Witness ==
    /\ pipePass = MutatorIndex("link")
    /\ \E m, n \in PipeModules :
          /\ pipeFinished[m] = MutatorIndex("link")
          /\ pipeFinished[n] < MutatorIndex("link")
          /\ pipeStarted[m] = MutatorIndex("link")

(***************************************************************************)
(* Explicit version pins (checked under SpecMutator)                       *)
(***************************************************************************)
HasSharp(entry) == \E k \in 1..Len(entry) : entry[k] = "#"

\* what StubsLibNameAndVersion is to return for an entry
SplitAtLastSharp(entry) ==
    LET r == StubsLibNameAndVersion(entry)
    IN  /\ r.version # <<>> =>
              /\ r.name \o <<"#">> \o r.version = entry
              /\ ~HasSharp(r.version)
        /\ (~HasSharp(entry) \/ entry[Len(entry)] = "#") =>
              r.name = entry /\ r.version = <<>>
        /\ (HasSharp(entry) /\ entry[Len(entry)] # "#") => r.version # <<>>

\* the version that the variations of a dependency select (<<>>: none)
VersionSelectors(d) ==
    SelectSeq(d.variations, LAMBDA v : v.Mutator = "version")

\* the edge for a shared-library entry pinned to a version
IsPinnedEdge(d, name, version) ==
    /\ d.name = name
    /\ d.tag.Kind = "shared" /\ d.tag.Order = "normal"
    /\ d.tag.explicitlyVersioned
    /\ VersionSelectors(d) = <<[Mutator |-> "version", Variation |-> version]>>

\* the normal shared-library entries as Module.deps leaves them
NormalSharedEntries == LastUniqueStrings(props.SharedLibs)

PinOf(entry) == StubsLibNameAndVersion(SyspropImpl(entry))

SharedLibraryDependencies ==
    SelectSeq(LibraryDependencies, LAMBDA d : d.tag.Kind = "shared")

EveryEntrySplit ==
    \A k \in 1..Len(props.SharedLibs) : SplitAtLastSharp(props.SharedLibs[k])

\* C30 as stated: StubsLibNameAndVersion splits an entry at its last '#',
\* and returns the entry and no version when there is no '#' or the entry
\* ends with one.  A normal shared-library entry with a version, on a module
\* that can link against version variants, gets an edge to the name with
\* the version selector of the pin and explicitlyVersioned set; every other
\* shared edge has no version selector and is not explicitlyVersioned.
C30_PinnedEntriesGetVersionedEdge ==
    Mutated =>
        /\ EveryEntrySplit
        /\ \A k \in 1..Len(NormalSharedEntries) :
              LET pin == PinOf(NormalSharedEntries[k])
              IN  pin.version # <<>> /\ CanBeOrLinkAgainstVersionVariants(module) =>
                      \E i \in 1..Len(SharedLibraryDependencies) :
                          IsPinnedEdge(SharedLibraryDependencies[i], pin.name, pin.version)
        /\ \A i \in 1..Len(SharedLibraryDependencies) :
              LET d == SharedLibraryDependencies[i]
              IN  \/ VersionSelectors(d) = <<>> /\ ~d.tag.explicitlyVersioned
                  \/ /\ CanBeOrLinkAgainstVersionVariants(module)
                     /\ \E k \in 1..Len(NormalSharedEntries) :
                           LET pin == PinOf(NormalSharedEntries[k])
                           IN  pin.version # <<>> /\ IsPinnedEdge(d, pin.name, pin.version)

\* the entry is redirected by name: to an NDK stub for a module that uses
\* the SDK, to a vendor public library for a platform or product module
RedirectedByName(entry) ==
    LET name == StubsLibNameAndVersion(entry).name
    IN  /\ module.Os = "android"
        /\ \/ UseSdk(module) /\ InList(name, ndkKnownLibs)
           \/ /\ ~UseVndk(module)
              /\ module.Platform \/ module.ProductSpecific
              /\ InList(name, vendorPublicLibraries)

\* C30 amended: the same, on a module that is not a stubs build, for the
\* entries that are not redirected by name; the edges to NDK stubs select
\* the version of the module's sdk_version and are not explicitlyVersioned.
C30_PinnedUnlessRedirected ==
    (Mutated /\ ~module.buildStubs) =>
        /\ EveryEntrySplit
        /\ \A k \in 1..Len(NormalSharedEntries) :
              LET pin == PinOf(NormalSharedEntries[k])
              IN  /\ pin.version # <<>>
                  /\ CanBeOrLinkAgainstVersionVariants(module)
                  /\ ~RedirectedByName(NormalSharedEntries[k])
                  => \E i \in 1..Len(SharedLibraryDependencies) :
                         IsPinnedEdge(SharedLibraryDependencies[i], pin.name, pin.version)
        /\ \A i \in 1..Len(SharedLibraryDependencies) :
              LET d == SharedLibraryDependencies[i]
              IN  \/ VersionSelectors(d) = <<>> /\ ~d.tag.explicitlyVersioned
                  \/ /\ d.tag.ndk /\ ~d.tag.explicitlyVersioned
                     /\ VersionSelectors(d) =
                           <<[Mutator |-> "version", Variation |-> module.Sdk_version]>>
                  \/ /\ CanBeOrLinkAgainstVersionVariants(module)
                     /\ \E k \in 1..Len(NormalSharedEntries) :
                           LET pin == PinOf(NormalSharedEntries[k])
                           IN  /\ pin.version # <<>>
                               /\ ~RedirectedByName(NormalSharedEntries[k])
                               /\ IsPinnedEdge(d, pin.name, pin.version)

\* a vendor module pins libc to 29 and lists an entry that ends with '#'
C30_Witness ==
    /\ Mutated /\ ~module.buildStubs /\ UseVndk(module)
    /\ props.SharedLibs = <<(<<"libc", "#", "29">>), <<"libfoo", "#">>>>
    /\ \E i \in 1..Len(SharedLibraryDependencies) :
          IsPinnedEdge(SharedLibraryDependencies[i], <<"libc">>, <<"29">>)
    /\ \E i \in 1..Len(SharedLibraryDependencies) :
          /\ SharedLibraryDependencies[i].name = <<"libfoo", "#">>
          /\ ~SharedLibraryDependencies[i].tag.explicitlyVersioned

(***************************************************************************)
(* Host, ramdisk, vendor_ramdisk, recovery and bootstrap consumers         *)
(* (checked under SpecImage)                                               *)
(***************************************************************************)
\* the library of the visited edge has stubs: the variant the edge leads to
\* publishes a stub table, or it is the variant of such a library in the
\* image of the consumer
VisitedLibraryHasStubs ==
    \/ Len(VisitedDep.Stubs) > 0
    \/ visit.edge.name = "libapex.image"

\* the consumer is a host, ramdisk, vendor_ramdisk, recovery or bootstrap
\* module that is not built for an APEX
ImplementationOnlyConsumer ==
    /\ consumer.ForPlatform
    /\ consumer.Image \in Images \/ consumer.Bootstrap

ImageWitness ==
    /\ SharedEdgeVisited
    /\ consumer.Image = "recovery" /\ ~consumer.Bootstrap
    /\ visit.edge.name = "libapex.image"
    /\ VisitedDep.AnyVariantDirectlyInAnyApex
    /\ ImplementationLinked

(***************************************************************************)
(* The re-exported lists and the consumed lists (checked under SpecLibrary)*)
(***************************************************************************)
ElementsOf(s) == {s[k] : k \in 1..Len(s)}

\* C28: when depsToPaths has returned, every re-exported include directory
\* is among the include directories of the module, every re-exported system
\* include directory among its system include directories, every
\* re-exported flag among its flags and every re-exported file dependency
\* among its generated deps, whatever edges the module has.
C28_ReexportedSubsetOfConsumed ==
    pathsPc = "done" =>
        LET dp == local.depPaths
        IN  /\ ElementsOf(dp.ReexportedDirs) \subseteq ElementsOf(dp.IncludeDirs)
            /\ ElementsOf(dp.ReexportedSystemDirs) \subseteq ElementsOf(dp.SystemIncludeDirs)
            /\ ElementsOf(dp.ReexportedFlags) \subseteq ElementsOf(dp.Flags)
            /\ ElementsOf(dp.ReexportedDeps) \subseteq ElementsOf(dp.GeneratedDeps)

(***************************************************************************)
(* Path/Flag Resolution of a module graph (checked under SpecResolve)      *)
(***************************************************************************)
Entered(m) == resState[m].status # "waiting"

\* C24: under every interleaving of the workers, a module whose resolution
\* has started has only producers whose resolution has completed, and what
\* it read of each producer is what that producer has published for good;
\* a module publishes at most once, and what is published for a module is
\* what that module itself computed.
C24_ProducersFinalWhenRead ==
    \A m \in ResolveNames :
        /\ Entered(m) =>
              \A p \in Producers(resConfig, m) :
                  /\ resState[p].status = "done"
                  /\ resState[m].read[p] = published[p]
        /\ resState[m].nPublished <= 1
        /\ published[m] =
              IF resState[m].status = "done" /\ resState[m].outputFile # ""
              THEN PublishedInfo(m, resState[m].L.depPaths)
              ELSE NoModuleInfo

\* libtop and libmid are resolved by two workers at the same time; both
\* have read what libbase published
C24_Witness ==
    /\ resState["libtop"].status = "running"
    /\ resState["libmid"].status = "running"
    /\ resConfig.edges[<<1, 2>>] = NoTag
    /\ Producers(resConfig, "libtop") = {"libbase"}
    /\ Producers(resConfig, "libmid") = {"libbase"}
    /\ published["libbase"].hasStaticInfo
    /\ resState["libtop"].read["libbase"] = published["libbase"]
    /\ resState["libmid"].L.depPaths.StaticLibs = <<ArchiveOf("libbase")>>

\* an error is reported against the module during dependency resolution,
\* flag computation, compilation or linking
FailedBeforeOutput(m) ==
    /\ resState[m].status = "done"
    /\ \/ resState[m].L.errors # <<>>
       \/ resConfig.fails[m] \in {"flags", "compile", "link"}

\* the stage of the first error
FailingStage(m) ==
    IF resState[m].L.errors # <<>> THEN "depsToPaths" ELSE resConfig.fails[m]

\* C25: a module against which an error is reported during dependency
\* resolution, flag computation, compilation or linking keeps an unset
\* output artifact path and publishes nothing, and no stage after the one
\* that failed is invoked for it; the other modules are still processed: a
\* module that waits and whose producers are all done, failed or not, can
\* be started.
C25_FailedModulePublishesNothing ==
    /\ \A m \in ResolveNames :
          FailedBeforeOutput(m) =>
              /\ resState[m].failed
              /\ resState[m].outputFile = ""
              /\ published[m] = NoModuleInfo
              /\ resState[m].stages = StagesThrough(FailingStage(m))
    /\ \A m \in ResolveNames :
          (resState[m].status = "waiting" /\ ProducersDone(m)) => Startable(m)

\* libmid failed to compile; libbase, which libmid uses, and libtop, which
\* uses libmid and libbase, were processed: libbase has its archive, libtop
\* reported the missing static library and stopped after depsToPaths
C25_Witness ==
    /\ AllResolved
    /\ resConfig.fails["libmid"] = "compile"
    /\ resState["libmid"].L.errors = <<>>
    /\ resState["libmid"].stages = <<"depsToPaths", "flags", "compile">>
    /\ resState["libmid"].outputFile = ""
    /\ resState["libbase"].outputFile = ArchiveOf("libbase")
    /\ Producers(resConfig, "libtop") = {"libmid", "libbase"}
    /\ resState["libtop"].L.errors # <<>>
    /\ resState["libtop"].stages = <<"depsToPaths">>
    /\ resState["libtop"].outputFile = ""

\* the ordered link-input lists of a module: the shared lists, the static
\* lists, the include paths and the flags
LinkInputs(st) ==
    [EarlySharedLibs |-> st.L.depPaths.EarlySharedLibs,
     SharedLibs |-> st.L.depPaths.SharedLibs,
     LateSharedLibs |-> st.L.depPaths.LateSharedLibs,
     StaticLibs |-> st.L.depPaths.StaticLibs,
     LateStaticLibs |-> st.L.depPaths.LateStaticLibs,
     WholeStaticLibs |-> st.L.depPaths.WholeStaticLibs,
     IncludeDirs |-> st.L.depPaths.IncludeDirs,
     SystemIncludeDirs |-> st.L.depPaths.SystemIncludeDirs,
     Flags |-> st.L.depPaths.Flags]

FirstIndex(s, x) == CHOOSE k \in 1..Len(s) : s[k] = x /\ \A h \in 1..(k - 1) : s[h] # x

\* list has the elements of raw, each once, in the order of their first
\* occurrence in raw
FirstOccurrences(list, raw) ==
    /\ \A i, j \in 1..Len(list) : i # j => list[i] # list[j]
    /\ ElementsOf(list) = ElementsOf(raw)
    /\ \A i, j \in 1..Len(list) :
          i < j => FirstIndex(raw, list[i]) < FirstIndex(raw, list[j])

MergedLists ==
    {"Flags", "IncludeDirs", "SystemIncludeDirs", "GeneratedDeps",
     "ReexportedFlags", "ReexportedDirs", "ReexportedSystemDirs", "ReexportedDeps"}

\* libtop has a reexport edge to libmid and libmid one to libbase; libmid
\* and libtop were resolved without error and libmid has published
ReexportChainResolved ==
    /\ AllResolved
    /\ resConfig.edges[<<1, 2>>].reexportFlags
    /\ resConfig.edges[<<2, 3>>].reexportFlags
    /\ published["libmid"].hasStaticInfo
    /\ resState["libtop"].L.errors = <<>>
    /\ resState["libtop"].L.missingDeps = <<>>

\* C27: with reexport edges from libtop (C) to libmid (A) and from libmid
\* to libbase (B), once the three are resolved and A has published, the
\* flags and include directories of C contain every flag and include
\* directory B exports, and they reach the flags C compiles with; each
\* merged list of every module has no duplicates and keeps the elements in
\* the order of their first occurrence.
C27_ReexportTransitive ==
    /\ ReexportChainResolved =>
          LET B == published["libbase"].FlagExporterInfo
              C == resState["libtop"]
          IN  /\ ElementsOf(B.Flags) \subseteq ElementsOf(C.L.depPaths.Flags)
              /\ ElementsOf(B.IncludeDirs) \subseteq ElementsOf(C.L.depPaths.IncludeDirs)
              /\ ElementsOf(B.SystemIncludeDirs)
                    \subseteq ElementsOf(C.L.depPaths.SystemIncludeDirs)
              /\ ElementsOf(B.Flags) \subseteq ElementsOf(C.L.depPaths.ReexportedFlags)
              /\ "compile" \in ElementsOf(C.stages) =>
                    /\ ElementsOf(B.Flags) \subseteq ElementsOf(C.flags)
                    /\ \A k \in 1..Len(B.IncludeDirs) :
                          ("-I" \o B.IncludeDirs[k]) \in ElementsOf(C.flags)
    /\ \A m \in ResolveNames :
          Entered(m) =>
              \A list \in MergedLists :
                  FirstOccurrences(resState[m].L.depPaths[list], resState[m].raw[list])

\* the chain is resolved without any failure, libtop has no edge to libbase
\* of its own and still has the flag and the include directory libbase
\* exports, after the ones of libmid; the flag that both export is there once
C27_Witness ==
    /\ ReexportChainResolved
    /\ resConfig.edges[<<1, 3>>] = NoTag
    /\ published["libbase"].FlagExporterInfo.Flags = <<"-DCOMMON", "-Dlibbase">>
    /\ resState["libtop"].L.depPaths.Flags = <<"-DCOMMON", "-Dlibmid", "-Dlibbase">>
    /\ resState["libtop"].raw.Flags =
          <<"-DCOMMON", "-Dlibmid", "-DCOMMON", "-Dlibbase">>
    /\ "include/libbase" \in ElementsOf(resState["libtop"].L.depPaths.IncludeDirs)
    /\ resState["libtop"].outputFile = ArchiveOf("libtop")

====
